---- MODULE Spec2Model ----
(***************************************************************************)
(* NeuronDownloader: the download scheduler (app/download_queue.py), the   *)
(* URL de-duplication registry (app/utils.py ActiveDownloads), the         *)
(* Telegram file_id cache (app/storage.py file_cache) and the jobs that    *)
(* handlers put on the worker pool (app/handlers/download.py,              *)
(* app/subscriptions.py).                                                  *)
(*                                                                         *)
(* Python None is written "None" for strings and NoneSize for sizes.       *)
(* Sizes are in MiB.  The file_cache columns id, codec, resolution,        *)
(* platform and created_at are never read by the operations modelled here  *)
(* and are left out of the rows.                                           *)
(***************************************************************************)
EXTENDS Integers, Sequences, FiniteSets, TLC

\* ---------------------------------------------------------------- bounds
MaxSubmits == 5
MaxRequests == 2
MaxCacheWrites == 2
MaxSends == 2
MaxParts == 3
MaxRegCalls == 3
\* split / abandon callbacks answered
MaxCallbacks == 3
max_queue_size == 2

\* ------------------------------------------------------ program constants
max_workers == 2
max_active_per_user_arg == 1
max_file_size == 50
split_target_size == 45
NoneSize == -1
NoneCeiling == -2
\* duration when ffprobe raised or printed no number (downloader.py 659-661)
NoneDuration == -1
UPLOAD_MAX_RETRIES == 3
UPLOAD_RETRY_DELAYS == <<2, 5, 10>>

\* ------------------------------------------------------------ input sets
Workers == 1..max_workers
Users == {1, 2}
NoUser == 0
Urls == {"a", "b"}
JobFormats == {"None"}
Formats == {"None", "best", "f18"}
Handles == {"fidA", "fidB"}
SentFileIds == {"fidA"}
CacheSizes == {NoneSize, 40}
FetchedSizes == {40, 60}
DirectSizes == {NoneSize, 40, 60}
SplitFileSizes == {60, 120}
PartSizes == {20, 55}
\* split tokens the callbacks carry
Tokens == {1, 2}
\* what ffprobe reports for the file: no number, 0 or 10 seconds
Durations == {NoneDuration, 0, 10}
Devices == {"android", "iphone"}
DEVICE_ANDROID == "android"
ProbeDevices == Devices \cup {"None"}
Callers == {1, 2}
CeilingArgs == {NoneCeiling, -1, 0, max_active_per_user_arg}
JobIds == 1..(IF MaxSubmits >= MaxRequests THEN MaxSubmits ELSE MaxRequests)

VARIABLES
    queue,              \* DownloadManager._queue: sequence of job items
    stop_event,         \* DownloadManager._stop_event
    active_counts,      \* DownloadManager._active_counts: dict user -> int
    future,             \* state of the Future of each submitted job
    submit_calls,       \* number of submit / submit_user calls made so far
    last_submit,        \* outcome of the latest submit call
    shutdown_requested, \* ctx.shutdown_requested
    active,             \* ActiveDownloads._active: dict url -> int
    file_cache,         \* rows of the file_cache table
    split_pending,      \* _split_pending: dict token -> pending file
    reencode_meta,      \* _reencode_meta: dict token -> meta
    pc,                 \* position of each worker thread
    job,                \* item each worker holds
    loc,                \* what the job function of each worker has done
    cache_writes,       \* number of direct cache_file calls (cache driver)
    cache_pc,           \* cache driver: "idle" or "written"
    cache_call,         \* cache driver: arguments of the latest cache_file
    cache_read,         \* cache driver: what the read after it returned
    retry,              \* a send_with_retry call and what its caller made of it
    reg,                \* registry driver: the calls made and what each caller holds
    ceiling_arg,        \* the max_active_per_user argument the manager was built with
    probe,              \* probe driver: the latest cache probe and what it looked up
    cut,                \* split_video driver: the latest call and what it returned
    decide              \* split decisions: the callbacks answered and the files removed

vars == <<queue, stop_event, active_counts, future, submit_calls, last_submit,
          shutdown_requested, active, file_cache, split_pending, reencode_meta,
          pc, job, loc, cache_writes, cache_pc, cache_call, cache_read, retry, reg,
          ceiling_arg, probe, cut, decide>>

managerVars == <<queue, stop_event, active_counts, future, submit_calls, last_submit>>
cacheDriverVars == <<cache_writes, cache_pc, cache_call, cache_read>>
workerVars == <<pc, job, loc>>
otherVars == <<reg, ceiling_arg, probe, cut, decide>>

\* ------------------------------------------------------- python dict helpers
EmptyDict == [k \in {} |-> 0]
Get(d, k) == IF k \in DOMAIN d THEN d[k] ELSE 0
Put(d, k, v) == [x \in (DOMAIN d) \cup {k} |-> IF x = k THEN v ELSE d[x]]
Pop(d, k) == [x \in (DOMAIN d) \ {k} |-> d[x]]
Max(a, b) == IF a >= b THEN a ELSE b

\* ------------------------------------------------ DownloadManager (pure part)
\* mutant: the argument is stored as it was given
max_active_per_user_as_given == ceiling_arg

\* __init__: max_active_per_user if max_active_per_user and
\* max_active_per_user > 0 else None; the None of the field is written 0
max_active_per_user ==
    IF ceiling_arg # NoneCeiling /\ ceiling_arg # 0 /\ ceiling_arg > 0
    THEN ceiling_arg ELSE 0

GateOn(user) == user # NoUser /\ max_active_per_user # 0

\* mutant: the item is appended whatever the size
put_nowait_unbounded(q, item) == [full |-> FALSE, queue |-> Append(q, item)]

\* mutant: the capacity test is off by one
put_nowait_off_by_one(q, item) ==
    IF max_queue_size > 0 /\ Len(q) > max_queue_size
    THEN [full |-> TRUE, queue |-> q]
    ELSE [full |-> FALSE, queue |-> Append(q, item)]

\* mutant: a stack, the item is put in front
put_nowait_front(q, item) ==
    IF max_queue_size > 0 /\ Len(q) >= max_queue_size
    THEN [full |-> TRUE, queue |-> q]
    ELSE [full |-> FALSE, queue |-> <<item>> \o q]

\* queue.Queue.put_nowait: raises queue.Full when maxsize > 0 and qsize >= maxsize
put_nowait(q, item) ==
    IF max_queue_size > 0 /\ Len(q) >= max_queue_size
    THEN [full |-> TRUE, queue |-> q]
    ELSE [full |-> FALSE, queue |-> Append(q, item)]

queued_count == Len(queue)
active_count(user) == Get(active_counts, user)

\* ------------------------------------------------------------ ActiveDownloads
\* mutant: the held test is missing
try_acquire_unchecked(a, url) ==
    [ok |-> TRUE, active |-> Put(a, url, Get(a, url) + 1)]

\* mutant: a refused attempt is still counted on the key
try_acquire_counting(a, url) ==
    IF Get(a, url) > 0
    THEN [ok |-> FALSE, active |-> Put(a, url, Get(a, url) + 1)]
    ELSE [ok |-> TRUE, active |-> Put(a, url, Get(a, url) + 1)]

try_acquire(a, url) ==
    IF Get(a, url) > 0
    THEN [ok |-> FALSE, active |-> a]
    ELSE [ok |-> TRUE, active |-> Put(a, url, Get(a, url) + 1)]

\* mutant: the count is brought to 0 and the key stays in the dict
release_leaves_zero(a, url) == Put(a, url, Max(0, Get(a, url) - 1))

\* mutant: release leaves the entry as it is
release_keeps_entry(a, url) == a

release(a, url) ==
    LET count == Get(a, url)
    IN IF count <= 1 THEN Pop(a, url) ELSE Put(a, url, count - 1)

\* log: the calls made on the registry so far, each with the caller, the key
\*      and, for try_acquire, the value returned
\* held: the keys each caller acquired and has not yet released
NewReg == [log |-> <<>>, held |-> [c \in Callers |-> {}]]

\* ------------------------------------------------------- Storage: file_cache
\* fmt = format_id or "best"
NormFormat(format_id) == IF format_id \in {"None", ""} THEN "best" ELSE format_id
Flag(b) == IF b THEN 1 ELSE 0

CacheMatch(r, url, fmt, reencoded, audio_only) ==
    /\ r.url = url
    /\ r.format_id = fmt
    /\ r.reencoded = Flag(reencoded)
    /\ r.audio_only = Flag(audio_only)

\* mutant: the table has no UNIQUE constraint, every call inserts a row
cache_file_plain_insert(c, url, format_id, reencoded, audio_only, telegram_file_id, file_size) ==
    c \cup {[url |-> url, format_id |-> NormFormat(format_id),
             reencoded |-> Flag(reencoded), audio_only |-> Flag(audio_only),
             telegram_file_id |-> telegram_file_id, file_size |-> file_size]}

\* mutant: INSERT OR IGNORE, an existing row is kept as it is
cache_file_ignore_conflict(c, url, format_id, reencoded, audio_only, telegram_file_id, file_size) ==
    LET fmt == NormFormat(format_id)
    IN IF \E r \in c : CacheMatch(r, url, fmt, reencoded, audio_only)
       THEN c
       ELSE c \cup {[url |-> url, format_id |-> fmt,
                     reencoded |-> Flag(reencoded), audio_only |-> Flag(audio_only),
                     telegram_file_id |-> telegram_file_id, file_size |-> file_size]}

\* INSERT ... ON CONFLICT(url, format_id, reencoded, audio_only) DO UPDATE
cache_file(c, url, format_id, reencoded, audio_only, telegram_file_id, file_size) ==
    LET fmt == NormFormat(format_id)
        hit == {r \in c : CacheMatch(r, url, fmt, reencoded, audio_only)}
    IN IF hit # {}
       THEN (c \ hit) \cup
            {[r EXCEPT !.telegram_file_id = telegram_file_id,
                       !.file_size = file_size] : r \in hit}
       ELSE c \cup {[url |-> url, format_id |-> fmt,
                     reencoded |-> Flag(reencoded), audio_only |-> Flag(audio_only),
                     telegram_file_id |-> telegram_file_id, file_size |-> file_size]}

CacheRows(c, url, format_id, reencoded, audio_only) ==
    {r \in c : CacheMatch(r, url, NormFormat(format_id), reencoded, audio_only)}

\* SELECT telegram_file_id ... fetchone(); "None" when there is no row
get_cached_file(c, url, format_id, reencoded, audio_only) ==
    LET rows == CacheRows(c, url, format_id, reencoded, audio_only)
    IN IF rows = {} THEN "None" ELSE (CHOOSE r \in rows : TRUE).telegram_file_id

\* the file_size column of the row get_cached_file reads
cached_file_size(c, url, format_id, reencoded, audio_only) ==
    LET rows == CacheRows(c, url, format_id, reencoded, audio_only)
    IN IF rows = {} THEN NoneSize ELSE (CHOOSE r \in rows : TRUE).file_size

Truthy(s) == s \notin {"None", ""}

\* ------------------------------------------------- send_with_retry (utils.py)
\* str(exc).lower() is kept as the set of its words
TransientTokens == {"timeout", "connection", "network", "429", "502", "503"}
ErrorTexts == {{"read", "timeout"}, {"error", "429"}, {"bad", "request"}}

\* an exception raised by attempt number "attempt" (1-based) of the sink call;
\* base: a BaseException that "except Exception" does not catch
NoExc == [attempt |-> 0, text |-> {}, base |-> FALSE]
Excs(n) == [attempt : {n}, text : ErrorTexts, base : {FALSE}]
              \cup {[attempt |-> n, text |-> {"exit"}, base |-> TRUE]}

\* mutant: every failure is taken for a transient one
is_transient_always(error_text) == TRUE

\* any(token in error_text for token in (...))
is_transient(error_text) == error_text \cap TransientTokens # {}

Min(a, b) == IF a <= b THEN a ELSE b

\* UPLOAD_RETRY_DELAYS[min(attempt, len(UPLOAD_RETRY_DELAYS) - 1)], attempt 0-based
retry_delay(attempt) ==
    UPLOAD_RETRY_DELAYS[Min(attempt, Len(UPLOAD_RETRY_DELAYS) - 1) + 1]

\* the places of the download job that deliver through _send_media
Sites == {"cache", "direct", "file"}

\* pc: "idle" | "try" | "sleep" | "after_loop" | "returned" | "raised" | "handled"
\* log: the outcome of every sink call made: the exception raised, NoExc
\*      when the call returned
\* caller: what the calling job did with the outcome
NewRetry == [pc |-> "idle", site |-> "none", count |-> 0, attempt |-> 0,
             log |-> <<>>, last_exc |-> NoExc, delay |-> 0, result |-> 0,
             raised |-> NoExc, caller |-> "none", job_error |-> NoExc]

\* lookups: the (reencoded, audio_only) pairs looked up, in order
\* no call of split_video yet
NewCut == [called |-> FALSE, file_size |-> 0, duration |-> 0,
           produced |-> [i \in 1..MaxParts |-> 0],
           result |-> [cuts |-> <<>>, parts |-> <<>>]]

NewProbe == [called |-> FALSE, url |-> "", format_id |-> "None",
             audio_only |-> FALSE, device |-> "None", lookups |-> <<>>,
             cached_file_id |-> "None"]

\* ------------------------------------------------------------------- jobs
NoJob == [id |-> 0, kind |-> "none", user |-> NoUser, url |-> "",
          format_id |-> "None", audio_only |-> FALSE]

\* direct, direct_size: of a download job after its direct-link stage, until
\*      download() is called or the job ends: how the stage ended ("info_fail", "no_url",
\*      "too_big", "sent", "send_fail", "log_fail") and the declared size
\* total_parts, part_sizes, parts: of a split job, len(parts), the size of
\*      each file split_video returned and, for each part handed to
\*      _send_media so far, its index i, its size and whether the delivery
\*      succeeded
\* hit: "no" no cache entry found; "ok" found and the cache branch completed;
\*      "exc" found and the cache branch raised
NewLoc == [acquired |-> FALSE, busy |-> FALSE, releases |-> 0, hit |-> "no",
           resolved |-> FALSE, fetched |-> FALSE, delivered |-> "none",
           reason |-> "none", result |-> "none",
           direct |-> "none", direct_size |-> NoneSize,
           total_parts |-> 0, part_sizes |-> <<>>, parts |-> <<>>]

InitButConfig ==
    /\ queue = <<>>
    /\ stop_event = FALSE
    /\ active_counts = EmptyDict
    /\ future = [i \in JobIds |-> "absent"]
    /\ submit_calls = 0
    /\ last_submit = "none"
    /\ shutdown_requested = FALSE
    /\ active = EmptyDict
    /\ file_cache = {}
    /\ reencode_meta = {}
    /\ pc = [w \in Workers |-> "idle"]
    /\ job = [w \in Workers |-> NoJob]
    /\ loc = [w \in Workers |-> NewLoc]
    /\ cache_writes = 0
    /\ cache_pc = "idle"
    /\ cache_call = [url |-> "", format_id |-> "None", reencoded |-> FALSE,
                     audio_only |-> FALSE, telegram_file_id |-> "None",
                     file_size |-> NoneSize]
    /\ cache_read = [telegram_file_id |-> "None", file_size |-> NoneSize]
    /\ retry = NewRetry
    /\ reg = NewReg
    /\ probe = NewProbe
    /\ cut = NewCut
    /\ decide = [log |-> <<>>, removed |-> {}]

InitButSplitPending ==
    /\ InitButConfig
    /\ ceiling_arg = max_active_per_user_arg

\* a manager built with any of the ceilings, None and non-positive ones included
InitCfg ==
    /\ InitButConfig
    /\ split_pending = {}
    /\ ceiling_arg \in CeilingArgs

Init ==
    /\ InitButSplitPending
    /\ split_pending = {}

\* two oversized downloads have ended and left their files for a decision
\* (download.py 460-497); every job has finished and the pool is idle
InitSplit ==
    /\ InitButSplitPending
    /\ \E u1 \in Users, u2 \in Users, url1 \in Urls, url2 \in Urls :
         split_pending = {[token |-> 1, user |-> u1, url |-> url1, audio_only |-> FALSE],
                          [token |-> 2, user |-> u2, url |-> url2, audio_only |-> FALSE]}

\* ------------------------------------------- DownloadManager: submit, shutdown
\* submit_user / submit: a new pending Future, then put_nowait of the item
SubmitItem(item) ==
    LET r == put_nowait(queue, item)
    IN /\ submit_calls' = submit_calls + 1
       /\ queue' = r.queue
       /\ last_submit' = IF r.full THEN "full" ELSE "accepted"
       /\ future' = IF r.full THEN future ELSE [future EXCEPT ![item.id] = "pending"]
       /\ UNCHANGED <<stop_event, active_counts>>

\* queue_download: submit_user(user_id, _job); queue.Full is answered by a message
QueueDownload(user, url, fmt, audio_only) ==
    /\ submit_calls < MaxRequests
    /\ SubmitItem([id |-> submit_calls + 1, kind |-> "download", user |-> user,
                   url |-> url, format_id |-> fmt, audio_only |-> audio_only])
    /\ UNCHANGED <<shutdown_requested, active, file_cache, split_pending,
                   reencode_meta, workerVars, cacheDriverVars, retry, otherVars>>

\* SubscriptionMonitor._poll_subscriptions: submit_user(user_id, _download_and_send, ...)
PollSubscription(user, url) ==
    /\ submit_calls < MaxRequests
    /\ SubmitItem([id |-> submit_calls + 1, kind |-> "subscription", user |-> user,
                   url |-> url, format_id |-> "None", audio_only |-> FALSE])
    /\ UNCHANGED <<shutdown_requested, active, file_cache, split_pending,
                   reencode_meta, workerVars, cacheDriverVars, retry, otherVars>>

\* handle_reencode: pop the token, then submit_user(re_user_id, _reencode_job)
HandleReencode(meta) ==
    /\ meta \in reencode_meta
    /\ submit_calls < MaxRequests
    /\ reencode_meta' = reencode_meta \ {meta}
    /\ SubmitItem([id |-> submit_calls + 1, kind |-> "reencode", user |-> meta.user,
                   url |-> meta.url, format_id |-> meta.format_id,
                   audio_only |-> FALSE])
    /\ UNCHANGED <<shutdown_requested, active, file_cache, split_pending,
                   workerVars, cacheDriverVars, retry, otherVars>>

\* submit(func): an item without a user
Submit ==
    /\ submit_calls < MaxSubmits
    /\ SubmitItem([id |-> submit_calls + 1, kind |-> "func", user |-> NoUser,
                   url |-> "", format_id |-> "None", audio_only |-> FALSE])
    /\ UNCHANGED <<shutdown_requested, active, file_cache, split_pending,
                   reencode_meta, workerVars, cacheDriverVars, retry, otherVars>>

\* submit_user(user_id, func)
SubmitUser(user) ==
    /\ submit_calls < MaxSubmits
    /\ SubmitItem([id |-> submit_calls + 1, kind |-> "func", user |-> user,
                   url |-> "", format_id |-> "None", audio_only |-> FALSE])
    /\ UNCHANGED <<shutdown_requested, active, file_cache, split_pending,
                   reencode_meta, workerVars, cacheDriverVars, retry, otherVars>>

\* submit_user(user_id, func) with no bound on the number of calls: the item
\* takes the number of a Future that is finished or was never made
SubmitUserMore(user) ==
    /\ \E id \in JobIds : future[id] \in {"absent", "finished"}
    /\ LET id == CHOOSE i \in JobIds :
                    /\ future[i] \in {"absent", "finished"}
                    /\ \A j \in JobIds : future[j] \in {"absent", "finished"} => i <= j
           r == put_nowait(queue, [id |-> id, kind |-> "func", user |-> user,
                                   url |-> "", format_id |-> "None",
                                   audio_only |-> FALSE])
       IN /\ queue' = r.queue
          /\ last_submit' = IF r.full THEN "full" ELSE "accepted"
          /\ future' = IF r.full THEN future ELSE [future EXCEPT ![id] = "pending"]
    /\ UNCHANGED <<stop_event, active_counts, submit_calls, shutdown_requested,
                   active, file_cache, split_pending, reencode_meta, workerVars,
                   cacheDriverVars, retry, otherVars>>

\* DownloadManager.shutdown: sets the stop event (the joins change no state)
Shutdown ==
    /\ ~stop_event
    /\ stop_event' = TRUE
    /\ UNCHANGED <<queue, active_counts, future, submit_calls, last_submit,
                   shutdown_requested, active, file_cache, split_pending,
                   reencode_meta, workerVars, cacheDriverVars, retry, otherVars>>

\* the signal handler side of shutdown: ctx.shutdown_requested becomes True
RequestShutdown ==
    /\ ~shutdown_requested
    /\ shutdown_requested' = TRUE
    /\ UNCHANGED <<managerVars, active, file_cache, split_pending,
                   reencode_meta, workerVars, cacheDriverVars, retry, otherVars>>

\* --------------------------------------------------- DownloadManager._worker
\* item = self._queue.get(timeout=0.5)
WorkerGet(w) ==
    /\ pc[w] = "idle"
    /\ queue # <<>>
    /\ job' = [job EXCEPT ![w] = Head(queue)]
    /\ queue' = Tail(queue)
    /\ pc' = [pc EXCEPT ![w] = IF GateOn(Head(queue).user) THEN "gate" ELSE "admitted"]
    /\ UNCHANGED <<stop_event, active_counts, future, submit_calls, last_submit,
                   shutdown_requested, active, file_cache, split_pending,
                   reencode_meta, loc, cacheDriverVars, retry, otherVars>>

\* mutant: the thread leaves its loop as soon as the stop event is set
WorkerExit_queue_unchecked(w) ==
    /\ pc[w] = "idle"
    /\ stop_event
    /\ pc' = [pc EXCEPT ![w] = "exited"]
    /\ UNCHANGED <<managerVars, shutdown_requested, active, file_cache,
                   split_pending, reencode_meta, job, loc, cacheDriverVars, retry, otherVars>>

\* queue.Empty and the stop event is set: the thread leaves its loop
WorkerExit(w) ==
    /\ pc[w] = "idle"
    /\ queue = <<>>
    /\ stop_event
    /\ pc' = [pc EXCEPT ![w] = "exited"]
    /\ UNCHANGED <<managerVars, shutdown_requested, active, file_cache,
                   split_pending, reencode_meta, job, loc, cacheDriverVars, retry, otherVars>>

\* first test of the gate loop, under _active_condition
WorkerGate(w) ==
    /\ pc[w] = "gate"
    /\ IF active_count(job[w].user) >= max_active_per_user
       THEN /\ pc' = [pc EXCEPT ![w] = "gate_wait"]
            /\ UNCHANGED active_counts
       ELSE /\ pc' = [pc EXCEPT ![w] = "admitted"]
            /\ active_counts' = Put(active_counts, job[w].user,
                                    active_count(job[w].user) + 1)
    /\ UNCHANGED <<queue, stop_event, future, submit_calls, last_submit,
                   shutdown_requested, active, file_cache, split_pending,
                   reencode_meta, job, loc, cacheDriverVars, retry, otherVars>>

\* wait(timeout=0.5) returned: break when the stop event is set, otherwise
\* test the loop condition again; either way the count is incremented after
\* the loop.  (Waking with the count still at the ceiling changes nothing.)
WorkerGateWake(w) ==
    /\ pc[w] = "gate_wait"
    /\ stop_event \/ active_count(job[w].user) < max_active_per_user
    /\ pc' = [pc EXCEPT ![w] = "admitted"]
    /\ active_counts' = Put(active_counts, job[w].user, active_count(job[w].user) + 1)
    /\ UNCHANGED <<queue, stop_event, future, submit_calls, last_submit,
                   shutdown_requested, active, file_cache, split_pending,
                   reencode_meta, job, loc, cacheDriverVars, retry, otherVars>>

\* mutant: the slot of the submitter is not given back
WorkerFinish_keeps_slot(w) ==
    /\ pc[w] = "finish"
    /\ loc[w].result \in {"return", "raise"}
    /\ future' = [future EXCEPT ![job[w].id] = "finished"]
    /\ pc' = [pc EXCEPT ![w] = "idle"]
    /\ job' = [job EXCEPT ![w] = NoJob]
    /\ loc' = [loc EXCEPT ![w] = NewLoc]
    /\ UNCHANGED <<queue, stop_event, active_counts, submit_calls, last_submit,
                   shutdown_requested, active, file_cache, split_pending,
                   reencode_meta, cacheDriverVars, retry, otherVars>>

\* func returned or raised an Exception: resolve the future, give the slot
\* back, notify_all, task_done
WorkerFinish(w) ==
    /\ pc[w] = "finish"
    /\ loc[w].result \in {"return", "raise"}
    /\ future' = [future EXCEPT ![job[w].id] = "finished"]
    /\ active_counts' = IF GateOn(job[w].user)
                        THEN Put(active_counts, job[w].user,
                                 Max(0, active_count(job[w].user) - 1))
                        ELSE active_counts
    /\ pc' = [pc EXCEPT ![w] = "idle"]
    /\ job' = [job EXCEPT ![w] = NoJob]
    /\ loc' = [loc EXCEPT ![w] = NewLoc]
    /\ UNCHANGED <<queue, stop_event, submit_calls, last_submit,
                   shutdown_requested, active, file_cache, split_pending,
                   reencode_meta, cacheDriverVars, retry, otherVars>>

\* func raised KeyboardInterrupt, which "except Exception" does not catch:
\* the exception leaves _worker and the thread ends
WorkerDie(w) ==
    /\ pc[w] = "finish"
    /\ loc[w].result = "interrupt"
    /\ pc' = [pc EXCEPT ![w] = "dead"]
    /\ UNCHANGED <<managerVars, shutdown_requested, active, file_cache,
                   split_pending, reencode_meta, job, loc, cacheDriverVars, retry, otherVars>>

\* future.set_running_or_notify_cancel() (no caller ever cancels a future)
SetRunning(w) == future' = [future EXCEPT ![job[w].id] = "running"]

\* an "except" handler of a job ran: it returns, or one of its own calls
\* (storage.log_download, bot.send_message) raises
HandlerResults == {"return", "raise"}

\* ------------------------------------------- queue_download._job (download.py)
SizeTruthy(size) == size # NoneSize /\ size # 0

\* mutant: only the entry for the device is looked up
cache_probe_exact_only(c, url, format_id, audio_only, device) ==
    get_cached_file(c, url, format_id, ~audio_only /\ device # DEVICE_ANDROID,
                    audio_only)

\* lines 279-293: the entry for the device first, then the other video entry
cache_probe(c, url, format_id, audio_only, device) ==
    LET need_reencoded == ~audio_only /\ device # DEVICE_ANDROID
        first == get_cached_file(c, url, format_id, need_reencoded, audio_only)
        second == IF ~Truthy(first) /\ need_reencoded
                  THEN get_cached_file(c, url, format_id, FALSE, audio_only)
                  ELSE first
    IN IF ~Truthy(second) /\ ~need_reencoded /\ ~audio_only
       THEN get_cached_file(c, url, format_id, TRUE, audio_only)
       ELSE second

\* lines 279-293: the (reencoded, audio_only) arguments of the get_cached_file
\* calls the probe makes, in the order it makes them
cache_probe_lookups(c, url, format_id, audio_only, device) ==
    LET need_reencoded == ~audio_only /\ device # DEVICE_ANDROID
        first == get_cached_file(c, url, format_id, need_reencoded, audio_only)
        second == IF ~Truthy(first) /\ need_reencoded
                  THEN get_cached_file(c, url, format_id, FALSE, audio_only)
                  ELSE first
        l1 == << <<need_reencoded, audio_only>> >>
        l2 == IF ~Truthy(first) /\ need_reencoded
              THEN Append(l1, <<FALSE, audio_only>>) ELSE l1
    IN IF ~Truthy(second) /\ ~need_reencoded /\ ~audio_only
       THEN Append(l2, <<TRUE, audio_only>>)
       ELSE l2

\* mutant: a failed delivery of the cached file_id ends the job
AfterCacheSend_gives_up(ev) == "return"

\* mutant: the "return" after the cached delivery is missing
AfterCacheSend_no_return(ev) == "direct"

\* lines 308-328: _send_media and log_download inside one try; "return" only
\* when neither raises, any exception is logged and the job goes on
AfterCacheSend(ev) == IF ev = "ok" THEN "return" ELSE "direct"

\* mutant: a failed direct-link delivery ends the job
AfterDirectSend_gives_up(ev) == "return"

\* lines 391-415: the same shape for the direct-link delivery
AfterDirectSend(ev) == IF ev = "ok" THEN "return" ELSE "fetch"

\* mutant: the declared size is not compared with the limit
direct_too_big_unchecked(direct_size) == FALSE

\* line 377: if direct_size and direct_size > max_file_size
direct_too_big(direct_size) == SizeTruthy(direct_size) /\ direct_size > max_file_size

\* lines 187-202 (and _worker line 73): the job function starts
DlBegin(w) ==
    /\ pc[w] = "admitted"
    /\ job[w].kind = "download"
    /\ SetRunning(w)
    /\ \E blocked \in BOOLEAN, msg \in HandlerResults :
         LET r == try_acquire(active, job[w].url)
         IN IF blocked \/ shutdown_requested
            THEN /\ msg = "return"
                 /\ loc' = [loc EXCEPT ![w].reason = IF blocked THEN "blocked" ELSE "shutdown",
                                       ![w].result = "return"]
                 /\ pc' = [pc EXCEPT ![w] = "finish"]
                 /\ UNCHANGED active
            ELSE IF ~r.ok
            THEN \* "already downloading" message; send_message itself may raise
                 /\ loc' = [loc EXCEPT ![w].busy = TRUE, ![w].reason = "busy",
                                       ![w].result = msg]
                 /\ pc' = [pc EXCEPT ![w] = "finish"]
                 /\ active' = r.active
            ELSE /\ msg = "return"
                 /\ loc' = [loc EXCEPT ![w].acquired = TRUE]
                 /\ pc' = [pc EXCEPT ![w] = "probe"]
                 /\ active' = r.active
    /\ UNCHANGED <<queue, stop_event, active_counts, submit_calls, last_submit,
                   shutdown_requested, file_cache, split_pending, reencode_meta,
                   job, cacheDriverVars, retry, otherVars>>

\* lines 278-328: cache probe and delivery of the cached file_id
\*   ev: "ok"        the calls of this step do not raise
\*       "send_fail" _send_media of the cached file_id raises
\*       "log_fail"  the file was sent, storage.log_download raises
\*       "error"     the storage read of the probe raises
DlCacheProbe(w) ==
    /\ pc[w] = "probe"
    /\ \E device \in Devices, ev \in {"ok", "send_fail", "log_fail", "error"},
          res \in HandlerResults :
         LET cached_file_id == cache_probe(file_cache, job[w].url, job[w].format_id,
                                           job[w].audio_only, device)
             sent == ev \in {"ok", "log_fail"}
         IN IF ev = "error"
            THEN /\ loc' = [loc EXCEPT ![w].reason = "error", ![w].result = res]
                 /\ pc' = [pc EXCEPT ![w] = "release"]
            ELSE IF Truthy(cached_file_id)
            THEN /\ loc' = [loc EXCEPT
                       ![w].hit = IF ev = "ok" THEN "ok" ELSE "exc",
                       ![w].delivered = IF sent THEN "cache" ELSE @,
                       ![w].reason = IF AfterCacheSend(ev) = "return" THEN "cache" ELSE @,
                       ![w].result = IF AfterCacheSend(ev) = "return" THEN "return" ELSE @]
                 /\ res = "return"
                 /\ pc' = [pc EXCEPT ![w] = IF AfterCacheSend(ev) = "return"
                                            THEN "release" ELSE "direct"]
            ELSE /\ ev = "ok"
                 /\ res = "return"
                 /\ pc' = [pc EXCEPT ![w] = "direct"]
                 /\ UNCHANGED loc
    /\ UNCHANGED <<managerVars, shutdown_requested, active, file_cache,
                   split_pending, reencode_meta, job, cacheDriverVars, retry, otherVars>>

\* lines 349-415: get_info / get_direct_url and the direct-link delivery
\*   ev: "info_fail" get_info or get_direct_url raises (caught, logged)
\*       "no_url"    no direct link, or the extractor is in DIRECT_URL_SKIP_EXTRACTORS
\*       "ok" / "send_fail" / "log_fail"  a direct link of direct_size exists
DlDirect(w) ==
    /\ pc[w] = "direct"
    /\ \E ev \in {"info_fail", "no_url", "ok", "send_fail", "log_fail"},
          direct_size \in DirectSizes :
         LET has_url == ev \in {"ok", "send_fail", "log_fail"}
             too_big == direct_too_big(direct_size)
             tried == has_url /\ ~too_big
             sent == tried /\ ev \in {"ok", "log_fail"}
             next == IF tried THEN AfterDirectSend(ev) ELSE "fetch"
         IN /\ (~has_url => direct_size = NoneSize)
            /\ (too_big => ev = "ok")
            /\ loc' = [loc EXCEPT
                   ![w].resolved = TRUE,
                   ![w].direct = IF ~has_url THEN ev
                                 ELSE IF ~tried THEN "too_big"
                                 ELSE IF ev = "ok" THEN "sent" ELSE ev,
                   ![w].direct_size = direct_size,
                   ![w].delivered = IF sent THEN "direct" ELSE @,
                   ![w].reason = IF next = "return" THEN "direct" ELSE @,
                   ![w].result = IF next = "return" THEN "return" ELSE @]
            /\ pc' = [pc EXCEPT ![w] = IF next = "return" THEN "release" ELSE "fallback"]
    /\ UNCHANGED <<managerVars, shutdown_requested, active, file_cache,
                   split_pending, reencode_meta, job, cacheDriverVars, retry, otherVars>>

\* lines 417-430: the fallback: the progress message is edited (its own
\* try / except) and downloader.download is called.  The locals of the
\* direct-link stage are not read again and are dropped here.
DlFallback(w) ==
    /\ pc[w] = "fallback"
    /\ loc' = [loc EXCEPT ![w].fetched = TRUE, ![w].direct = "none",
                          ![w].direct_size = NoneSize]
    /\ pc' = [pc EXCEPT ![w] = "fetching"]
    /\ UNCHANGED <<managerVars, shutdown_requested, active, file_cache,
                   split_pending, reencode_meta, job, cacheDriverVars, retry, otherVars>>

\* lines 218-224 and 426-631: downloader.download ends, then the oversize
\* hand-off or the delivery of the file and the cache write
\*   ev: "interrupt" progress_hook saw ctx.shutdown_requested: KeyboardInterrupt
\*       "timeout"   progress_hook saw the deadline passed: TimeoutError
\*       "error"     download raises another Exception
\*       "ok"        the file is there, every later call succeeds
\*       "msg_fail"  oversize: the split question cannot be sent
\*       "send_fail" _send_media of the file raises
\*       "cache_fail" the file was sent, storage.cache_file raises (logged)
\*       "log_fail"  the file was sent, the final storage.log_download raises
DlFetchEnd(w) ==
    /\ pc[w] = "fetching"
    /\ job[w].kind = "download"
    /\ \E ev \in {"interrupt", "timeout", "error", "ok", "msg_fail", "send_fail",
                  "cache_fail", "log_fail"},
          needs_reencode \in BOOLEAN,
          sent_file_id \in SentFileIds \cup {"None"}, res \in HandlerResults :
       \E total_bytes \in IF ev \in {"interrupt", "timeout", "error"}
                           THEN {NoneSize} ELSE FetchedSizes :
         LET fetched_ok == ev \notin {"interrupt", "timeout", "error"}
             oversize == SizeTruthy(total_bytes) /\ total_bytes > max_file_size
             sent == fetched_ok /\ ~oversize /\ ev \in {"ok", "cache_fail", "log_fail"}
             cache_write == sent /\ Truthy(sent_file_id) /\ ev # "cache_fail"
             failed == \/ ev \in {"timeout", "error"}
                       \/ fetched_ok /\ oversize /\ ev = "msg_fail"
                       \/ fetched_ok /\ ~oversize /\ ev \in {"send_fail", "log_fail"}
         IN /\ (ev = "interrupt" => shutdown_requested)
            /\ (ev = "timeout" => ~shutdown_requested)
            /\ (~fetched_ok => ~needs_reencode)
            /\ (~sent => sent_file_id = "None")
            /\ (oversize => ev \in {"ok", "msg_fail"} /\ ~needs_reencode)
            /\ (~oversize => ev # "msg_fail")
            /\ (job[w].audio_only => ~needs_reencode)
            /\ (~failed => res = "return")
            /\ split_pending' =
                 IF fetched_ok /\ oversize
                 THEN split_pending \cup {[token |-> job[w].id, user |-> job[w].user,
                                           url |-> job[w].url,
                                           audio_only |-> job[w].audio_only]}
                 ELSE split_pending
            /\ reencode_meta' =
                 IF fetched_ok /\ ~oversize /\ needs_reencode
                 THEN reencode_meta \cup {[token |-> job[w].id, user |-> job[w].user,
                                           url |-> job[w].url,
                                           format_id |-> job[w].format_id]}
                 ELSE reencode_meta
            /\ file_cache' =
                 IF cache_write
                 THEN cache_file(file_cache, job[w].url, job[w].format_id, FALSE,
                                 job[w].audio_only, sent_file_id, total_bytes)
                 ELSE file_cache
            /\ loc' = [loc EXCEPT
                   ![w].delivered = IF sent THEN "file" ELSE @,
                   ![w].reason = IF ev = "interrupt" THEN "interrupt"
                                 ELSE IF ev = "timeout" THEN "timeout"
                                 ELSE IF failed THEN "error"
                                 ELSE IF oversize THEN "oversize" ELSE "file",
                   ![w].result = IF ev = "interrupt" THEN "interrupt" ELSE res]
            /\ pc' = [pc EXCEPT ![w] = "release"]
    /\ UNCHANGED <<managerVars, shutdown_requested, active, job, cacheDriverVars, retry, otherVars>>

\* mutant: the release is at the end of the try body and of the handlers
\* instead of in "finally", so a KeyboardInterrupt skips it
DlRelease_not_finally(w) ==
    /\ pc[w] = "release"
    /\ IF loc[w].result = "interrupt"
       THEN UNCHANGED <<active, loc>>
       ELSE /\ active' = release(active, job[w].url)
            /\ loc' = [loc EXCEPT ![w].releases = @ + 1, ![w].direct = "none",
                                  ![w].direct_size = NoneSize]
    /\ pc' = [pc EXCEPT ![w] = "finish"]
    /\ UNCHANGED <<managerVars, shutdown_requested, file_cache, split_pending,
                   reencode_meta, job, cacheDriverVars, retry, otherVars>>

\* lines 632-633: finally: active_downloads.release(url)
DlRelease(w) ==
    /\ pc[w] = "release"
    /\ active' = release(active, job[w].url)
    /\ loc' = [loc EXCEPT ![w].releases = @ + 1, ![w].direct = "none",
                          ![w].direct_size = NoneSize]
    /\ pc' = [pc EXCEPT ![w] = "finish"]
    /\ UNCHANGED <<managerVars, shutdown_requested, file_cache, split_pending,
                   reencode_meta, job, cacheDriverVars, retry, otherVars>>

\* ------------------------- SubscriptionMonitor._download_and_send (subscriptions.py)
\* lines 90-101: blocked / monitor stop checks, get_info, then downloader.download
\*   ev: "blocked"   storage.is_blocked(user_id)
\*       "stopped"   the monitor's own stop event is set
\*       "info_fail" get_info or resolve_format_id raises
\*       "go"        downloader.download is called
SubBegin(w) ==
    /\ pc[w] = "admitted"
    /\ job[w].kind = "subscription"
    /\ SetRunning(w)
    /\ \E ev \in {"blocked", "stopped", "info_fail", "go"}, res \in HandlerResults :
         /\ (ev # "info_fail" => res = "return")
         /\ loc' = [loc EXCEPT
                ![w].resolved = ev \in {"info_fail", "go"},
                ![w].fetched = (ev = "go"),
                ![w].reason = IF ev = "go" THEN @
                              ELSE IF ev = "info_fail" THEN "error" ELSE ev,
                ![w].result = IF ev = "go" THEN @ ELSE res]
         /\ pc' = [pc EXCEPT ![w] = IF ev = "go" THEN "fetching" ELSE "finish"]
    /\ UNCHANGED <<queue, stop_event, active_counts, submit_calls, last_submit,
                   shutdown_requested, active, file_cache, split_pending,
                   reencode_meta, job, cacheDriverVars, retry, otherVars>>

\* lines 99-143: download ends, send_with_retry, bookkeeping, or the handler
\*   ev: "error" download raises; "send_fail" the upload raises;
\*       "post_fail" update_last_video / log_download raises after the upload
SubFetchEnd(w) ==
    /\ pc[w] = "fetching"
    /\ job[w].kind = "subscription"
    /\ \E ev \in {"error", "send_fail", "post_fail", "ok"}, res \in HandlerResults :
         /\ (ev = "ok" => res = "return")
         /\ loc' = [loc EXCEPT
                ![w].delivered = IF ev \in {"ok", "post_fail"} THEN "file" ELSE @,
                ![w].reason = IF ev = "ok" THEN "file" ELSE "error",
                ![w].result = res]
         /\ pc' = [pc EXCEPT ![w] = "finish"]
    /\ UNCHANGED <<managerVars, shutdown_requested, active, file_cache,
                   split_pending, reencode_meta, job, cacheDriverVars, retry, otherVars>>

\* ------------------------------------ handle_reencode._reencode_job (download.py)
\* lines 1298-1329: probe of the re-encoded entry, else downloader.download.
\* Every exception of this job is caught by its handler (lines 1421-1429).
\*   ev: "ok"; "send_fail" _send_media of the cached file_id raises;
\*       "error" the storage read raises
ReBegin(w) ==
    /\ pc[w] = "admitted"
    /\ job[w].kind = "reencode"
    /\ SetRunning(w)
    /\ \E ev \in {"ok", "send_fail", "error"} :
         LET cached_fid == get_cached_file(file_cache, job[w].url, job[w].format_id,
                                           TRUE, FALSE)
             hit == ev # "error" /\ Truthy(cached_fid)
             fetch == ev = "ok" /\ ~Truthy(cached_fid)
         IN /\ (ev = "send_fail" => Truthy(cached_fid))
            /\ loc' = [loc EXCEPT
                   ![w].hit = IF ~hit THEN "no" ELSE IF ev = "ok" THEN "ok" ELSE "exc",
                   ![w].delivered = IF hit /\ ev = "ok" THEN "cache" ELSE @,
                   ![w].fetched = fetch,
                   ![w].reason = IF fetch THEN @
                                 ELSE IF ev = "ok" THEN "cache" ELSE "error",
                   ![w].result = IF fetch THEN @ ELSE "return"]
            /\ pc' = [pc EXCEPT ![w] = IF fetch THEN "fetching" ELSE "finish"]
    /\ UNCHANGED <<queue, stop_event, active_counts, submit_calls, last_submit,
                   shutdown_requested, active, file_cache, split_pending,
                   reencode_meta, job, cacheDriverVars, retry, otherVars>>

\* lines 1327-1429: download ends, ensure_h264, size check, delivery, cache write
\*   ev: "error" download or ensure_h264 raises; "send_fail"; "cache_fail"; "ok"
ReFetchEnd(w) ==
    /\ pc[w] = "fetching"
    /\ job[w].kind = "reencode"
    /\ \E ev \in {"error", "send_fail", "cache_fail", "ok"},
          sent_fid \in SentFileIds \cup {"None"} :
       \E total_bytes \in IF ev = "error" THEN {NoneSize} ELSE FetchedSizes :
         LET oversize == ev # "error" /\ SizeTruthy(total_bytes)
                         /\ total_bytes > max_file_size
             sent == ~oversize /\ ev \in {"ok", "cache_fail"}
             cache_write == sent /\ Truthy(sent_fid) /\ ev = "ok"
         IN /\ (oversize => ev = "ok")
            /\ (~sent => sent_fid = "None")
            /\ file_cache' =
                 IF cache_write
                 THEN cache_file(file_cache, job[w].url, job[w].format_id, TRUE,
                                 FALSE, sent_fid, total_bytes)
                 ELSE file_cache
            /\ loc' = [loc EXCEPT
                   ![w].delivered = IF sent THEN "file" ELSE @,
                   ![w].reason = IF oversize THEN "oversize"
                                 ELSE IF sent THEN "file" ELSE "error",
                   ![w].result = "return"]
            /\ pc' = [pc EXCEPT ![w] = "finish"]
    /\ UNCHANGED <<managerVars, shutdown_requested, active, split_pending,
                   reencode_meta, job, cacheDriverVars, retry, otherVars>>

\* ------------------------------------------- handle_split_yes (download.py)
\* a pop that leaves the entry in the dict
PopPending_keeps(token) == split_pending

\* _split_pending.pop(token, None): what it returns (a set with the entry,
\* empty for None) and the dict it leaves
PendingOf(token) == {p \in split_pending : p.token = token}
PopPending(token) == {p \in split_pending : p.token # token}

\* lines 1109-1198 with an entry found: the token is popped, then
\* submit_user(user_id, _split_job), queue.Full answered by a message
Approve(pending) ==
    /\ split_pending' = PopPending(pending.token)
    /\ SubmitItem([id |-> submit_calls + 1, kind |-> "split", user |-> pending.user,
                   url |-> pending.url, format_id |-> "None",
                   audio_only |-> pending.audio_only])

\* the approval of a pending split while the pool has room for it
HandleSplitYes(pending) ==
    /\ pending \in split_pending
    /\ submit_calls < MaxRequests
    /\ Approve(pending)
    /\ UNCHANGED <<shutdown_requested, active, file_cache, reencode_meta,
                   workerVars, cacheDriverVars, retry, otherVars>>

\* math.ceil(a / b)
Ceil(a, b) == (a + b - 1) \div b

\* the sizes of the first n segments together
RECURSIVE SumTo(_, _)
SumTo(f, n) == IF n = 0 THEN 0 ELSE f[n] + SumTo(f, n - 1)

PartExists(f) == f.size > 0

\* VideoDownloader.split_video (downloader.py 638-690), on sizes and times:
\*   duration: what ffprobe printed; NoneDuration when ffprobe raised or
\*          printed no number
\*   produced[i]: the size of the file ffmpeg left for segment i, 0 when the
\*          file is missing or empty or ffmpeg raised
\* the result names the ffmpeg runs made (cuts: segment i starts at
\* start / den and lasts t / den, the quotients duration / num_parts of the
\* code kept exact) and the files returned (parts: the segment each file
\* holds, 0 for the unsplit file, and its size)
Unsplit(file_size) == [cuts |-> <<>>, parts |-> <<[segment |-> 0, size |-> file_size]>>]

split_video(file_size, max_size, duration, produced) ==
    IF file_size <= max_size THEN Unsplit(file_size)
    ELSE IF duration = NoneDuration THEN Unsplit(file_size)
    ELSE IF duration <= 0 THEN Unsplit(file_size)
    ELSE LET num_parts == Ceil(file_size, max_size)
             ffmpeg == [i \in 1..num_parts |->
                          [start |-> (i - 1) * duration, t |-> duration,
                           den |-> num_parts]]
             files == [i \in 1..num_parts |-> [segment |-> i, size |-> produced[i]]]
             parts == SelectSeq(files, PartExists)
         IN [cuts |-> ffmpeg,
             parts |-> IF parts # <<>> THEN parts
                       ELSE <<[segment |-> 0, size |-> file_size]>>]

\* lines 1124-1141: the thumbnail, then parts = downloader.split_video(...)
\*   the file is one an oversized download left; ffmpeg cuts it by time with
\*   "-c copy", so the sizes of the segments are whatever the stream gives;
\*   "error": download_thumbnail or split_video raises (the file is gone)
\*   and the job function ends
SplitBegin(w) ==
    /\ pc[w] = "admitted"
    /\ job[w].kind = "split"
    /\ SetRunning(w)
    /\ \E ev \in {"ok", "error"}, file_size \in SplitFileSizes,
          duration \in Durations,
          produced \in [1..MaxParts -> {0} \cup PartSizes] :
         LET num_parts == Ceil(file_size, split_target_size)
             ffprobe == IF duration = NoneDuration THEN "fail"
                        ELSE IF duration <= 0 THEN "no_duration" ELSE "ok"
             parts == split_video(file_size, split_target_size, duration, produced).parts
         IN /\ num_parts <= MaxParts
            /\ \A i \in 1..MaxParts :
                 (ev = "error" \/ ffprobe # "ok" \/ i > num_parts) => produced[i] = 0
            /\ SumTo(produced, MaxParts) <= file_size
            /\ (ev = "error" => file_size = 60 /\ ffprobe = "ok")
            /\ IF ev = "error"
               THEN /\ loc' = [loc EXCEPT ![w].reason = "error", ![w].result = "raise"]
                    /\ pc' = [pc EXCEPT ![w] = "finish"]
               ELSE /\ loc' = [loc EXCEPT ![w].total_parts = Len(parts),
                                          ![w].part_sizes =
                                              [k \in 1..Len(parts) |-> parts[k].size]]
                    /\ pc' = [pc EXCEPT ![w] = "parts"]
    /\ UNCHANGED <<queue, stop_event, active_counts, submit_calls, last_submit,
                   shutdown_requested, active, file_cache, split_pending,
                   reencode_meta, job, cacheDriverVars, retry, otherVars>>

\* lines 1143-1168: one pass of "for i, part_path in enumerate(parts, 1)":
\* _send_media of part i inside try / except Exception (logged) / finally
SplitSendPart(w) ==
    /\ pc[w] = "parts"
    /\ Len(loc[w].parts) < loc[w].total_parts
    /\ \E outcome \in {"ok", "fail"} :
         loc' = [loc EXCEPT
             ![w].parts = Append(@, [index |-> Len(loc[w].parts) + 1,
                                     size |-> loc[w].part_sizes[Len(loc[w].parts) + 1],
                                     outcome |-> outcome]),
             ![w].delivered = IF outcome = "ok" THEN "file" ELSE @]
    /\ UNCHANGED <<managerVars, shutdown_requested, active, file_cache,
                   split_pending, reencode_meta, pc, job, cacheDriverVars, retry, otherVars>>

\* lines 1170-1187: the loop is over: files removed, the final message
\* (its own try / except), the function returns
SplitEnd(w) ==
    /\ pc[w] = "parts"
    /\ Len(loc[w].parts) = loc[w].total_parts
    /\ loc' = [loc EXCEPT ![w].reason = "split", ![w].result = "return"]
    /\ pc' = [pc EXCEPT ![w] = "finish"]
    /\ UNCHANGED <<managerVars, shutdown_requested, active, file_cache,
                   split_pending, reencode_meta, job, cacheDriverVars, retry, otherVars>>

\* ----------------------------------------- _worker lines 73-79 for any callable
\* set_running_or_notify_cancel(), then func(*args, **kwargs) is entered
FuncBegin(w) ==
    /\ pc[w] = "admitted"
    /\ job[w].kind = "func"
    /\ SetRunning(w)
    /\ pc' = [pc EXCEPT ![w] = "executing"]
    /\ UNCHANGED <<queue, stop_event, active_counts, submit_calls, last_submit,
                   shutdown_requested, active, file_cache, split_pending,
                   reencode_meta, job, loc, cacheDriverVars, retry, otherVars>>

\* func returns, raises an Exception, or (a download job whose progress hook
\* saw ctx.shutdown_requested) raises KeyboardInterrupt
FuncEnd(w) ==
    /\ pc[w] = "executing"
    /\ \E res \in {"return", "raise", "interrupt"} :
         /\ (res = "interrupt" => shutdown_requested)
         /\ loc' = [loc EXCEPT ![w].result = res]
    /\ pc' = [pc EXCEPT ![w] = "finish"]
    /\ UNCHANGED <<managerVars, shutdown_requested, active, file_cache,
                   split_pending, reencode_meta, job, cacheDriverVars, retry, otherVars>>

\* ------------------------------------------------- cache driver (storage.py)
\* a caller of Storage.cache_file
CacheFileCall(url, format_id, reencoded, audio_only, telegram_file_id, file_size) ==
    /\ cache_pc = "idle"
    /\ cache_writes < MaxCacheWrites
    /\ cache_writes' = cache_writes + 1
    /\ file_cache' = cache_file(file_cache, url, format_id, reencoded, audio_only,
                                telegram_file_id, file_size)
    /\ cache_call' = [url |-> url, format_id |-> format_id, reencoded |-> reencoded,
                      audio_only |-> audio_only, telegram_file_id |-> telegram_file_id,
                      file_size |-> file_size]
    /\ cache_pc' = "written"
    /\ UNCHANGED <<managerVars, shutdown_requested, active, split_pending,
                   reencode_meta, workerVars, cache_read, retry, otherVars>>

\* the read of the same key that follows at once
CacheReadBack ==
    /\ cache_pc = "written"
    /\ cache_read' =
         [telegram_file_id |-> get_cached_file(file_cache, cache_call.url,
                                  cache_call.format_id, cache_call.reencoded,
                                  cache_call.audio_only),
          file_size |-> cached_file_size(file_cache, cache_call.url,
                                  cache_call.format_id, cache_call.reencoded,
                                  cache_call.audio_only)]
    /\ cache_pc' = "read"
    /\ UNCHANGED <<managerVars, shutdown_requested, active, file_cache, split_pending,
                   reencode_meta, workerVars, cache_writes, cache_call, retry, otherVars>>

\* the driver goes on to its next call
CacheNext ==
    /\ cache_pc = "read"
    /\ cache_pc' = "idle"
    /\ UNCHANGED <<managerVars, shutdown_requested, active, file_cache, split_pending,
                   reencode_meta, workerVars, cache_writes, cache_call, cache_read, retry, otherVars>>

\* ------------------------------------------------ probe driver (download.py)
\* lines 278-293 of a download job for (url, format_id, audio_only) whose
\* submitter has the given device type
CacheProbeCall(url, format_id, audio_only, device) ==
    /\ cache_pc = "idle"
    /\ probe' = [called |-> TRUE, url |-> url, format_id |-> format_id,
                 audio_only |-> audio_only, device |-> device,
                 lookups |-> cache_probe_lookups(file_cache, url, format_id,
                                                 audio_only, device),
                 cached_file_id |-> cache_probe(file_cache, url, format_id,
                                                audio_only, device)]
    /\ UNCHANGED <<managerVars, shutdown_requested, active, file_cache,
                   split_pending, reencode_meta, workerVars, cacheDriverVars,
                   retry, reg, ceiling_arg, cut, decide>>

\* ------------------------------------------- registry driver (utils.py)
\* the number of try_acquire calls made so far
TryAcquireCalls ==
    Cardinality({i \in 1..Len(reg.log) : reg.log[i].op = "try_acquire"})

\* a caller of ActiveDownloads.try_acquire
TryAcquireCall(c, url) ==
    /\ TryAcquireCalls < MaxRegCalls
    /\ LET r == try_acquire(active, url)
       IN /\ active' = r.active
          /\ reg' = [log |-> Append(reg.log, [op |-> "try_acquire", caller |-> c,
                                              url |-> url, ok |-> r.ok]),
                     held |-> IF r.ok
                              THEN [reg.held EXCEPT ![c] = @ \cup {url}]
                              ELSE reg.held]
    /\ UNCHANGED <<managerVars, shutdown_requested, file_cache, split_pending,
                   reencode_meta, workerVars, cacheDriverVars, retry, ceiling_arg, probe, cut, decide>>

\* the caller that acquired the key releases it
ReleaseCall(c, url) ==
    /\ url \in reg.held[c]
    /\ active' = release(active, url)
    /\ reg' = [log |-> Append(reg.log, [op |-> "release", caller |-> c,
                                        url |-> url, ok |-> TRUE]),
               held |-> [reg.held EXCEPT ![c] = @ \ {url}]]
    /\ UNCHANGED <<managerVars, shutdown_requested, file_cache, split_pending,
                   reencode_meta, workerVars, cacheDriverVars, retry, ceiling_arg, probe, cut, decide>>

\* ------------------------------------------------------- send_with_retry
\* _send_media calls send_with_retry(bot.send_video / bot.send_audio, ...)
SendWithRetry(site) ==
    /\ retry.pc \in {"idle", "handled"}
    /\ retry.count < MaxSends
    /\ retry' = [NewRetry EXCEPT !.pc = "try", !.site = site,
                                 !.count = retry.count + 1]
    /\ UNCHANGED <<managerVars, shutdown_requested, active, file_cache,
                   split_pending, reencode_meta, workerVars, cacheDriverVars, otherVars>>

\* lines 140-160: one pass of the loop body: the sink call and its handler
SendAttempt ==
    /\ retry.pc = "try"
    /\ \E outcome \in {NoExc} \cup Excs(retry.attempt + 1) :
         IF outcome = NoExc
         THEN retry' = [retry EXCEPT !.log = Append(@, outcome),
                                     !.result = retry.attempt + 1,
                                     !.pc = "returned"]
         ELSE IF outcome.base
         THEN retry' = [retry EXCEPT !.log = Append(@, outcome),
                                     !.raised = outcome,
                                     !.pc = "raised"]
         ELSE IF ~is_transient(outcome.text)
         THEN retry' = [retry EXCEPT !.log = Append(@, outcome),
                                     !.last_exc = outcome,
                                     !.raised = outcome,
                                     !.pc = "raised"]
         ELSE IF retry.attempt < UPLOAD_MAX_RETRIES - 1
         THEN retry' = [retry EXCEPT !.log = Append(@, outcome),
                                     !.last_exc = outcome,
                                     !.delay = retry_delay(retry.attempt),
                                     !.pc = "sleep"]
         ELSE retry' = [retry EXCEPT !.log = Append(@, outcome),
                                     !.last_exc = outcome,
                                     !.pc = "after_loop"]
    /\ UNCHANGED <<managerVars, shutdown_requested, active, file_cache,
                   split_pending, reencode_meta, workerVars, cacheDriverVars, otherVars>>

\* time.sleep(delay) returns and the loop takes the next attempt
SendSleepEnd ==
    /\ retry.pc = "sleep"
    /\ retry' = [retry EXCEPT !.attempt = @ + 1, !.pc = "try"]
    /\ UNCHANGED <<managerVars, shutdown_requested, active, file_cache,
                   split_pending, reencode_meta, workerVars, cacheDriverVars, otherVars>>

\* mutant: the failure of the first attempt is kept and raised
SendRaiseLast_first ==
    /\ retry.pc = "after_loop"
    /\ retry' = [retry EXCEPT !.raised = retry.log[1], !.pc = "raised"]
    /\ UNCHANGED <<managerVars, shutdown_requested, active, file_cache,
                   split_pending, reencode_meta, workerVars, cacheDriverVars, otherVars>>

\* line 161: raise last_exc
SendRaiseLast ==
    /\ retry.pc = "after_loop"
    /\ retry' = [retry EXCEPT !.raised = retry.last_exc, !.pc = "raised"]
    /\ UNCHANGED <<managerVars, shutdown_requested, active, file_cache,
                   split_pending, reencode_meta, workerVars, cacheDriverVars, otherVars>>

\* what queue_download._job does with the outcome of _send_media:
\*   cache (308-328) and direct (391-415): "except Exception" logs and the job
\*     goes on to its next step;
\*   file (540-631): the exception reaches the job's handlers, which report it;
\*   a BaseException passes every "except Exception" and leaves the job
caller_outcome(site, ended, raised) ==
    IF ended = "returned" THEN "delivered"
    ELSE IF raised.base THEN "propagated"
    ELSE IF site = "file" THEN "reported"
    ELSE "swallowed"

CallerHandle ==
    /\ retry.pc \in {"returned", "raised"}
    /\ LET c == caller_outcome(retry.site, retry.pc, retry.raised)
       IN retry' = [retry EXCEPT
              !.caller = c,
              !.job_error = IF c \in {"reported", "propagated"}
                            THEN retry.raised ELSE NoExc,
              !.pc = "handled"]
    /\ UNCHANGED <<managerVars, shutdown_requested, active, file_cache,
                   split_pending, reencode_meta, workerVars, cacheDriverVars, otherVars>>

\* ------------------------------------------------------------ specification
Next ==
    \/ \E user \in Users, url \in Urls, fmt \in JobFormats, audio_only \in BOOLEAN :
         QueueDownload(user, url, fmt, audio_only)
    \/ \E user \in Users, url \in Urls : PollSubscription(user, url)
    \/ \E meta \in reencode_meta : HandleReencode(meta)
    \/ Shutdown
    \/ RequestShutdown
    \/ \E w \in Workers : WorkerGet(w)
    \/ \E w \in Workers : WorkerExit(w)
    \/ \E w \in Workers : WorkerGate(w)
    \/ \E w \in Workers : WorkerGateWake(w)
    \/ \E w \in Workers : WorkerFinish(w)
    \/ \E w \in Workers : WorkerDie(w)
    \/ \E w \in Workers : DlBegin(w)
    \/ \E w \in Workers : DlCacheProbe(w)
    \/ \E w \in Workers : DlDirect(w)
    \/ \E w \in Workers : DlFallback(w)
    \/ \E w \in Workers : DlFetchEnd(w)
    \/ \E w \in Workers : DlRelease(w)
    \/ \E w \in Workers : SubBegin(w)
    \/ \E w \in Workers : SubFetchEnd(w)
    \/ \E w \in Workers : ReBegin(w)
    \/ \E w \in Workers : ReFetchEnd(w)

Spec == Init /\ [][Next]_vars

\* DownloadManager alone, driven by submit / submit_user of arbitrary callables
NextSched ==
    \/ Submit
    \/ \E user \in Users : SubmitUser(user)
    \/ Shutdown
    \/ RequestShutdown
    \/ \E w \in Workers : WorkerGet(w)
    \/ \E w \in Workers : WorkerExit(w)
    \/ \E w \in Workers : WorkerGate(w)
    \/ \E w \in Workers : WorkerGateWake(w)
    \/ \E w \in Workers : WorkerFinish(w)
    \/ \E w \in Workers : WorkerDie(w)
    \/ \E w \in Workers : FuncBegin(w)
    \/ \E w \in Workers : FuncEnd(w)

SpecSched == Init /\ [][NextSched]_vars

\* Storage.cache_file / get_cached_file alone, driven by arbitrary calls
NextCache ==
    \/ \E url \in Urls, format_id \in Formats, reencoded \in BOOLEAN,
          audio_only \in BOOLEAN, telegram_file_id \in Handles,
          file_size \in CacheSizes :
         CacheFileCall(url, format_id, reencoded, audio_only, telegram_file_id,
                       file_size)
    \/ CacheReadBack
    \/ CacheNext

SpecCache == Init /\ [][NextCache]_vars

\* the cache probe of the download job on a cache filled by arbitrary writes
NextProbe ==
    \/ \E url \in Urls, format_id \in Formats, reencoded \in BOOLEAN,
          audio_only \in BOOLEAN, telegram_file_id \in Handles,
          file_size \in CacheSizes :
         CacheFileCall(url, format_id, reencoded, audio_only, telegram_file_id,
                       file_size)
    \/ CacheReadBack
    \/ CacheNext
    \/ \E url \in Urls, format_id \in JobFormats, audio_only \in BOOLEAN,
          device \in ProbeDevices :
         CacheProbeCall(url, format_id, audio_only, device)

SpecProbe == Init /\ [][NextProbe]_vars

\* send_with_retry alone, called from each delivery site of the download job
NextRetry ==
    \/ \E site \in Sites : SendWithRetry(site)
    \/ SendAttempt
    \/ SendSleepEnd
    \/ SendRaiseLast
    \/ CallerHandle

SpecRetry == Init /\ [][NextRetry]_vars

\* DownloadManager with a pool of one worker thread: only worker 1 exists.
\* (The only worker finds the count of every submitter at 0 when it reaches
\* the gate, so it never waits there.)
OneWorker == {1}

NextOne ==
    \/ \E user \in Users : SubmitUser(user)
    \/ \E w \in OneWorker : WorkerGet(w)
    \/ \E w \in OneWorker : WorkerGate(w)
    \/ \E w \in OneWorker : WorkerFinish(w)
    \/ \E w \in OneWorker : FuncBegin(w)
    \/ \E w \in OneWorker : FuncEnd(w)

SpecOne == Init /\ [][NextOne]_vars

\* ActiveDownloads alone, driven by callers that release what they acquired
NextReg ==
    \/ \E c \in Callers, url \in Urls : TryAcquireCall(c, url)
    \/ \E c \in Callers, url \in Urls : ReleaseCall(c, url)

SpecReg == Init /\ [][NextReg]_vars

\* DownloadManager with no shutdown and an endless supply of submit_user
\* calls.  Every step of a worker thread is weakly fair (the thread is
\* scheduled again and again, and wait(timeout=0.5) returns) and every job
\* function ends; nothing is assumed of the submitters.
NextLive ==
    \/ \E user \in Users : SubmitUserMore(user)
    \/ \E w \in Workers : WorkerGet(w)
    \/ \E w \in Workers : WorkerGate(w)
    \/ \E w \in Workers : WorkerGateWake(w)
    \/ \E w \in Workers : WorkerFinish(w)
    \/ \E w \in Workers : FuncBegin(w)
    \/ \E w \in Workers : FuncEnd(w)

WorkerFairness ==
    \A w \in Workers :
        /\ WF_vars(WorkerGet(w))
        /\ WF_vars(WorkerGate(w))
        /\ WF_vars(WorkerGateWake(w))
        /\ WF_vars(WorkerFinish(w))
        /\ WF_vars(FuncBegin(w))
        /\ WF_vars(FuncEnd(w))

SpecLive == Init /\ [][NextLive]_vars /\ WorkerFairness

\* DownloadManager with shutdown, every step of a worker thread weakly fair
\* and every job function ending
NextStop ==
    \/ \E user \in Users : SubmitUser(user)
    \/ Shutdown
    \/ \E w \in Workers : WorkerGet(w)
    \/ \E w \in Workers : WorkerExit(w)
    \/ \E w \in Workers : WorkerGate(w)
    \/ \E w \in Workers : WorkerGateWake(w)
    \/ \E w \in Workers : WorkerFinish(w)
    \/ \E w \in Workers : FuncBegin(w)
    \/ \E w \in Workers : FuncEnd(w)

SpecStop ==
    /\ Init
    /\ [][NextStop]_vars
    /\ WorkerFairness
    /\ \A w \in Workers : WF_vars(WorkerExit(w))

\* DownloadManager built with each of the ceilings
SpecCfg == InitCfg /\ [][NextStop]_vars

\* the split jobs of the oversized files left by earlier downloads
NextSplit ==
    \/ \E pending \in split_pending : HandleSplitYes(pending)
    \/ \E w \in Workers : WorkerGet(w)
    \/ \E w \in Workers : WorkerGate(w)
    \/ \E w \in Workers : WorkerGateWake(w)
    \/ \E w \in Workers : WorkerFinish(w)
    \/ \E w \in Workers : SplitBegin(w)
    \/ \E w \in Workers : SplitSendPart(w)
    \/ \E w \in Workers : SplitEnd(w)

SpecSplit == InitSplit /\ [][NextSplit]_vars


\* ===================================================================== claims
\* worker w is between a successful try_acquire(k) and its release(k)
Holds(w, k) == job[w].url = k /\ loc[w].acquired /\ loc[w].releases = 0

\* the job function of worker w is executing
Executing(w) ==
    pc[w] \in {"executing", "probe", "direct", "fallback", "fetching", "release",
              "parts"}

\* the job function of worker w has ended
Ended(w) == pc[w] \in {"finish", "dead"}

\* C1: for every URL k at most one download job at a time is between a
\* successful try_acquire(k) and its matching release(k).
C1_OneHolderPerUrl ==
    \A k \in Urls : Cardinality({w \in Workers : Holds(w, k)}) <= 1

C1_Witness ==
    \E w1 \in Workers, w2 \in Workers :
        /\ w1 # w2
        /\ Holds(w1, job[w1].url)
        /\ job[w2].url = job[w1].url
        /\ loc[w2].busy

\* C2: the number of one submitter's jobs whose function is executing never
\* exceeds the ceiling, before as well as after shutdown() set the stop event.
C2_CeilingAlways ==
    \A u \in Users :
        Cardinality({w \in Workers : Executing(w) /\ job[w].user = u})
            <= max_active_per_user

\* C3: with the queue at max_queue_size a submit / submit_user call is not
\* blocked, fails with queue.Full and changes neither the queue nor any
\* submitter's active count.
C3_FullRejects ==
    /\ [](Len(queue) >= max_queue_size /\ submit_calls < MaxSubmits
            => ENABLED Submit /\ \A u \in Users : ENABLED SubmitUser(u))
    /\ [][(submit_calls' # submit_calls /\ Len(queue) >= max_queue_size)
            => (/\ last_submit' = "full"
                /\ queue' = queue
                /\ active_counts' = active_counts
                /\ future' = future)]_vars

C3_Witness == last_submit = "full" /\ Len(queue) = max_queue_size

\* C4: the number of queued jobs never exceeds max_queue_size.
C4_QueueBounded == queued_count <= max_queue_size

C4_Witness ==
    /\ queued_count = max_queue_size
    /\ last_submit = "accepted"
    /\ \E w \in Workers : pc[w] # "idle"

\* C5: a download job that acquired the URL calls release exactly once
\* before its function ends, on every exit path; a job that did not acquire
\* it never calls release.
C5_ReleaseExactlyOnce ==
    \A w \in Workers :
        job[w].kind = "download" =>
            /\ loc[w].releases <= 1
            /\ (~loc[w].acquired => loc[w].releases = 0)
            /\ (Ended(w) /\ loc[w].acquired => loc[w].releases = 1)

C5_Witness ==
    \E w \in Workers :
        /\ job[w].kind = "download"
        /\ Ended(w)
        /\ loc[w].reason = "interrupt"
        /\ loc[w].acquired
        /\ loc[w].releases = 1

\* C6: no two jobs on the pool, of any kind, are inside downloader.download
\* for the same URL at the same time.
C6_NoConcurrentFetchOfUrl ==
    \A w1 \in Workers, w2 \in Workers :
        (w1 # w2 /\ pc[w1] = "fetching" /\ pc[w2] = "fetching")
            => job[w1].url # job[w2].url

\* C7: a download job that starts while another job holds its URL reports
\* "already in progress" and ends without get_info, download, delivery or
\* release, and leaves the registry as it was.
C7_BusyJobDoesNothing ==
    /\ [](\A w \in Workers :
            loc[w].busy =>
                /\ Ended(w)
                /\ ~loc[w].acquired
                /\ ~loc[w].resolved
                /\ ~loc[w].fetched
                /\ loc[w].delivered = "none"
                /\ loc[w].releases = 0)
    /\ [][\A w \in Workers :
            (/\ pc[w] = "admitted"
             /\ pc'[w] # "admitted"
             /\ job[w].kind = "download"
             /\ \E w2 \in Workers : w2 # w /\ Holds(w2, job[w].url))
            => (/\ pc'[w] = "finish"
                /\ loc'[w].reason \in {"busy", "blocked", "shutdown"}
                /\ active' = active
                /\ \E w2 \in Workers : w2 # w /\ Holds(w2, job[w].url)')]_vars

C7_Witness ==
    \E w \in Workers, w2 \in Workers :
        /\ w2 # w
        /\ loc[w].busy
        /\ pc[w] = "finish"
        /\ Holds(w2, job[w].url)

\* C8 as stated: a download job whose cache probe found an entry never calls
\* downloader.download, whatever the outcome of delivering the cached file_id.
C8_HitNeverFetches ==
    \A w \in Workers :
        (job[w].kind = "download" /\ loc[w].hit # "no") => ~loc[w].fetched

\* C8 amended: a download job whose cache probe found an entry and whose
\* cache branch completed without an exception calls neither get_info nor
\* downloader.download; it fetches only after that branch raised.
C8_HitFetchesOnlyAfterFailure ==
    \A w \in Workers :
        (job[w].kind = "download" /\ loc[w].hit # "no") =>
            /\ (loc[w].hit = "ok" => ~loc[w].fetched /\ ~loc[w].resolved)
            /\ (loc[w].fetched \/ loc[w].resolved => loc[w].hit = "exc")

C8_Witness ==
    \E w \in Workers :
        /\ job[w].kind = "download"
        /\ loc[w].hit = "ok"
        /\ loc[w].delivered = "cache"
        /\ pc[w] = "finish"

\* C9: when a download job ends having delivered the file, by direct link
\* or after a full fetch, the cache holds an entry that a repeated request
\* for the same (URL, variant) hits.
C9_DeliveredIsCached ==
    \A w \in Workers :
        (job[w].kind = "download" /\ Ended(w)
            /\ loc[w].delivered \in {"direct", "file"})
        => \A device \in Devices :
              Truthy(cache_probe(file_cache, job[w].url, job[w].format_id,
                                 job[w].audio_only, device))

CacheKey(r) == <<r.url, r.format_id, r.reencoded, r.audio_only>>

\* C11: after any sequence of cache_file calls the cache holds at most one
\* row per key (url, format_id with None read as "best", reencoded,
\* audio_only), and get_cached_file returns the handle of the latest write
\* of the key: a write makes the read of its key return the written handle
\* and leaves the read of every other key as it was.
C11_OneRowPerKeyLatestWins ==
    /\ [](\A r1 \in file_cache, r2 \in file_cache :
            CacheKey(r1) = CacheKey(r2) => r1 = r2)
    /\ [][cache_writes' # cache_writes =>
            \A url \in Urls, format_id \in Formats, reencoded \in BOOLEAN,
               audio_only \in BOOLEAN :
                 get_cached_file(file_cache', url, format_id, reencoded, audio_only)
                   = IF /\ url = cache_call'.url
                        /\ NormFormat(format_id) = NormFormat(cache_call'.format_id)
                        /\ reencoded = cache_call'.reencoded
                        /\ audio_only = cache_call'.audio_only
                     THEN cache_call'.telegram_file_id
                     ELSE get_cached_file(file_cache, url, format_id, reencoded,
                                          audio_only)]_vars

\* the second write overwrote the row of the first through the other
\* spelling of the default format, and another key would still read None
C11_Witness ==
    /\ cache_pc = "written"
    /\ cache_writes = 2
    /\ Cardinality(file_cache) = 1
    /\ cache_call.format_id = "best"
    /\ cache_call.telegram_file_id = "fidA"
    /\ \E r \in file_cache : r.telegram_file_id = "fidA" /\ r.file_size = 40
    /\ get_cached_file(file_cache, cache_call.url, "None", cache_call.reencoded,
                       cache_call.audio_only) = "fidA"
    /\ get_cached_file(file_cache, cache_call.url, "f18", cache_call.reencoded,
                       cache_call.audio_only) = "None"

\* the failures among the outcomes of a send_with_retry call: transient when
\* the text names a timeout, a connection or network fault, 429, 502 or 503
IsTransientFailure(o) == o # NoExc /\ ~o.base /\ o.text \cap TransientTokens # {}
IsPermanentFailure(o) == o # NoExc /\ ~o.base /\ o.text \cap TransientTokens = {}
RetryEnded == retry.pc \in {"returned", "raised", "handled"}

\* C12: send_with_retry calls the sink at least once and at most
\* UPLOAD_MAX_RETRIES times; it returns the result of the first successful
\* attempt without a further call, makes another call only after a transient
\* failure, and after a permanent failure makes no further call and raises
\* that failure at once.
C12_BoundedRetry ==
    /\ \A i \in 1..Len(retry.log) :
         i < Len(retry.log) => IsTransientFailure(retry.log[i])
    /\ Len(retry.log) <= UPLOAD_MAX_RETRIES
    /\ RetryEnded =>
         LET n == Len(retry.log)
         IN /\ n >= 1
            /\ (retry.log[n] = NoExc =>
                   /\ retry.result = n
                   /\ retry.raised = NoExc)
            /\ (retry.log[n] # NoExc => retry.result = 0)
            /\ (retry.log[n] # NoExc /\ IsPermanentFailure(retry.log[n]) =>
                   retry.raised = retry.log[n])
    /\ (retry.log # <<>> /\ IsPermanentFailure(retry.log[Len(retry.log)]))
           => retry.pc \in {"raised", "handled"}
    /\ (retry.log # <<>> /\ retry.log[Len(retry.log)] = NoExc)
           => retry.pc \in {"returned", "handled"}

\* a permanent failure on the second attempt, after one transient failure
C12_Witness ==
    /\ retry.pc = "raised"
    /\ Len(retry.log) = 2
    /\ IsTransientFailure(retry.log[1])
    /\ IsPermanentFailure(retry.log[2])
    /\ retry.raised = retry.log[2]

\* all UPLOAD_MAX_RETRIES attempts of the call failed with transient errors
Exhausted ==
    /\ Len(retry.log) = UPLOAD_MAX_RETRIES
    /\ \A i \in 1..Len(retry.log) : IsTransientFailure(retry.log[i])

\* C13 as stated: when all attempts fail with transient errors the call
\* raises the failure of the last attempt, and that failure is the error
\* the calling job ends with.
C13_LastFailureEndsJob ==
    (Exhausted /\ retry.pc = "handled") =>
        /\ retry.raised = retry.log[UPLOAD_MAX_RETRIES]
        /\ retry.job_error = retry.log[UPLOAD_MAX_RETRIES]

\* C13 amended: when all attempts fail with transient errors the call raises
\* the failure of the last attempt; the download job's handler reports that
\* failure when the call delivered the fetched file, and the job logs it and
\* goes on to its next step when the call delivered a cached file_id or a
\* direct link.
C13_LastFailureRaised ==
    /\ (Exhausted /\ retry.pc \in {"raised", "handled"}) =>
           retry.raised = retry.log[UPLOAD_MAX_RETRIES]
    /\ (Exhausted /\ retry.pc = "handled") =>
           IF retry.site = "file"
           THEN retry.caller = "reported"
                /\ retry.job_error = retry.log[UPLOAD_MAX_RETRIES]
           ELSE retry.caller = "swallowed" /\ retry.job_error = NoExc

\* three transient failures with different texts, reported by the job
C13_Witness ==
    /\ Exhausted
    /\ retry.pc = "handled"
    /\ retry.site = "file"
    /\ retry.log[1].text # retry.log[UPLOAD_MAX_RETRIES].text
    /\ retry.job_error = retry.log[UPLOAD_MAX_RETRIES]

\* job number i is in the queue
InQueue(i) == \E k \in 1..Len(queue) : queue[k].id = i

\* C14 as stated: under weak fairness of the worker threads, with no
\* shutdown and every job function ending, every job accepted by submit_user
\* eventually starts executing.
C14_EveryJobStarts ==
    \A i \in JobIds : (future[i] = "pending") ~> (future[i] = "running")

\* C14 amended: under the same assumptions every accepted job is
\* eventually taken from the queue by a worker, a worker that holds a job
\* at its submitter's admission gate is eventually admitted unless another
\* job of the same submitter is admitted ahead of it, and an admitted job
\* starts executing; a job can be kept from starting only by later jobs of
\* its own submitter overtaking it at the gate.
C14_StartsUnlessOvertaken ==
    /\ \A i \in JobIds : InQueue(i) ~> ~InQueue(i)
    /\ \A w \in Workers :
         (pc[w] \in {"gate", "gate_wait"}) ~>
             \/ pc[w] = "admitted"
             \/ \E w2 \in Workers \ {w} :
                    pc[w2] = "admitted" /\ job[w2].user = job[w].user
    /\ \A w \in Workers : (pc[w] = "admitted") ~> (pc[w] = "executing")

\* one worker waits at the gate of a submitter whose job runs on the other
\* worker, while jobs of both submitters wait in the queue
C14_Witness ==
    \E w \in Workers, w2 \in Workers :
        /\ pc[w] = "gate_wait"
        /\ pc[w2] = "executing"
        /\ job[w2].user = job[w].user
        /\ Len(queue) = 2
        /\ queue[1].user = job[w].user
        /\ queue[2].user # job[w].user

\* the accepted jobs that are not finished: in the queue, held by a worker
\* at the gate, or with their function entered
Unfinished == {i \in JobIds : future[i] \in {"pending", "running"}}

\* C15: at every instant at most max_workers job functions are executing,
\* and at most max_queue_size + max_workers accepted jobs are unfinished,
\* each of them in the queue or held by one worker.
C15_InFlightBounded ==
    /\ Cardinality({w \in Workers : Executing(w)}) <= max_workers
    /\ Cardinality(Unfinished) <= max_queue_size + max_workers
    /\ \A i \in Unfinished :
         \/ InQueue(i)
         \/ \E w \in Workers : job[w].id = i

\* the pool is saturated and one more submit was refused
C15_Witness ==
    /\ Cardinality(Unfinished) = max_queue_size + max_workers
    /\ \A w \in Workers : Executing(w)
    /\ last_submit = "full"
    /\ submit_calls = max_queue_size + max_workers + 1

\* C16: after shutdown() no call of submit or submit_user adds an item to
\* the queue.
C16_NoSubmitAfterShutdown ==
    [][(stop_event /\ submit_calls' # submit_calls) => queue' = queue]_vars

\* C17: once the stop event is set no job that is still in the queue is
\* taken from it, admitted and executed by a worker.
C17_QueuedJobsDropped ==
    \A i \in JobIds :
        []((stop_event /\ InQueue(i)) => [](future[i] # "running"))

\* C18: a split job hands the parts of its file to _send_media in
\* increasing index order 1..N, and hands part i+1 over only if the parts
\* 1..i were all delivered.
C18_PartsInOrderAfterSuccess ==
    \A w \in Workers :
        job[w].kind = "split" =>
            \A k \in 1..Len(loc[w].parts) :
                /\ loc[w].parts[k].index = k
                /\ k <= loc[w].total_parts
                /\ \A j \in 1..(k - 1) : loc[w].parts[j].outcome = "ok"

\* C19: a download job never attempts the direct delivery of a link whose
\* declared size exceeds max_file_size; it goes on to downloader.download.
C19_NoOversizedDirect ==
    /\ [](\A w \in Workers :
            (job[w].kind = "download" /\ loc[w].direct_size > max_file_size) =>
                /\ loc[w].direct \notin {"sent", "send_fail", "log_fail"}
                /\ loc[w].delivered # "direct"
                /\ pc[w] = "fallback")
    /\ [][\A w \in Workers :
            (pc[w] = "fallback" /\ pc'[w] # "fallback") =>
                pc'[w] = "fetching" /\ loc'[w].fetched]_vars

C19_Witness ==
    \E w \in Workers :
        /\ job[w].kind = "download"
        /\ pc[w] = "fallback"
        /\ loc[w].direct = "too_big"
        /\ loc[w].direct_size > max_file_size
        /\ loc[w].delivered = "none"

\* C20: when the direct-link stage of a download job fails (get_info or
\* get_direct_url raises, or the delivery raises after its retries) the job
\* does not end: it goes on to downloader.download and still holds the URL.
C20_DirectFailureFallsThrough ==
    /\ [](\A w \in Workers :
            (job[w].kind = "download"
                /\ loc[w].direct \in {"info_fail", "send_fail", "log_fail"}) =>
                /\ pc[w] = "fallback"
                /\ loc[w].result = "none"
                /\ Holds(w, job[w].url)
                /\ Get(active, job[w].url) = 1)
    /\ [][\A w \in Workers :
            (pc[w] = "fallback" /\ pc'[w] # "fallback") =>
                /\ pc'[w] = "fetching"
                /\ loc'[w].fetched
                /\ loc'[w].result = "none"
                /\ Holds(w, job[w].url)'
                /\ active' = active]_vars

\* one job is about to fetch after get_info raised, the other after its
\* direct delivery raised
C20_Witness ==
    \E w \in Workers, w2 \in Workers :
        /\ job[w].kind = "download" /\ job[w2].kind = "download"
        /\ pc[w] = "fallback" /\ pc[w2] = "fallback"
        /\ loc[w].direct = "send_fail"
        /\ loc[w2].direct = "info_fail"
        /\ Holds(w, job[w].url) /\ Holds(w2, job[w2].url)

\* key k is held by some caller of the registry driver
RegHeld(k) == \E c \in Callers : k \in reg.held[c]

\* C21: try_acquire(k) returns True exactly when k is not held and then
\* marks k held; when k is held it returns False without blocking and
\* leaves the registry unchanged; after the holder's release(k) the next
\* try_acquire(k) returns True.
C21_TryAcquireContract ==
    /\ [](\A c \in Callers, k \in Urls :
            (RegHeld(k) /\ TryAcquireCalls < MaxRegCalls) =>
                ENABLED TryAcquireCall(c, k))
    /\ [][reg' # reg =>
            LET call == reg'.log[Len(reg'.log)]
                k == call.url
            IN IF call.op = "try_acquire"
               THEN /\ call.ok = ~RegHeld(k)
                    /\ call.ok => /\ Get(active', k) > 0
                                  /\ \A x \in Urls \ {k} : Get(active', x) = Get(active, x)
                    /\ ~call.ok => active' = active
               ELSE /\ try_acquire(active', k).ok
                    /\ \A x \in Urls \ {k} : Get(active', x) = Get(active, x)]_vars

\* a key was acquired, refused to the other caller, released by its holder
\* and then acquired by the caller that had been refused
C21_Witness ==
    /\ Len(reg.log) = 4
    /\ reg.log[1] = [op |-> "try_acquire", caller |-> 1, url |-> "a", ok |-> TRUE]
    /\ reg.log[2] = [op |-> "try_acquire", caller |-> 2, url |-> "a", ok |-> FALSE]
    /\ reg.log[3] = [op |-> "release", caller |-> 1, url |-> "a", ok |-> TRUE]
    /\ reg.log[4] = [op |-> "try_acquire", caller |-> 2, url |-> "a", ok |-> TRUE]
    /\ active = Put(EmptyDict, "a", 1)

\* C22 as stated: with queue capacity max_queue_size (2) and one worker,
\* the last of max_queue_size + 1 submissions made one after the other is
\* rejected with queue.Full whatever the worker thread does in between.
C22_ThirdRejected == submit_calls = max_queue_size + 1 => last_submit = "full"

\* C22 amended: that submission is rejected exactly when all earlier jobs
\* are still in the queue at the time of the call, that is when the worker
\* has taken no job from the queue in between; once the worker has taken
\* the first job the submission is accepted.
C22_ThirdRejectedIffQueueFull ==
    [][(submit_calls = max_queue_size /\ submit_calls' = max_queue_size + 1) =>
          /\ (last_submit' = "full") = (\A i \in 1..max_queue_size : InQueue(i))
          /\ (last_submit' = "full") = (\A w \in OneWorker : pc[w] = "idle"
                                           /\ future[1] = "pending")
          /\ (last_submit' = "full") => queue' = queue
          /\ (last_submit' # "full") => InQueue(max_queue_size + 1)']_vars

\* the submission was rejected with the worker still idle
C22_Witness ==
    /\ submit_calls = max_queue_size + 1
    /\ last_submit = "full"
    /\ Len(queue) = max_queue_size
    /\ \A w \in OneWorker : pc[w] = "idle"
    /\ future[max_queue_size + 1] = "absent"

\* the cache holds an entry that the probe of the job of worker w would find,
\* whatever the device of its submitter
CachedFor(w) ==
    \A device \in Devices :
        Truthy(cache_probe(file_cache, job[w].url, job[w].format_id,
                           job[w].audio_only, device))

\* C23: a download job consults the cache before it tries to take the URL:
\* a job whose request is cached when it starts is not refused as "already
\* downloading" while another job holds the URL, and does not call
\* try_acquire.
C23_CacheBeforeLock ==
    [][\A w \in Workers :
          (/\ pc[w] = "admitted"
           /\ pc'[w] # "admitted"
           /\ job[w].kind = "download"
           /\ loc'[w].reason \notin {"blocked", "shutdown"}
           /\ CachedFor(w))
          => (~loc'[w].busy /\ ~loc'[w].acquired /\ active' = active)]_vars

\* the fetch of the download job of worker w was aborted by its progress
\* hook because shutdown had been requested
Interrupted(w) == job[w].kind = "download" /\ loc[w].reason = "interrupt"

\* C24: when shutdown is requested while the fetch of a download job is in
\* progress, the fetch is aborted and the job ends as a failure, not a
\* crash: the URL is released, the worker thread survives, the future of the
\* job is resolved and the active count of its submitter is decremented.
C24_InterruptIsFailure ==
    /\ [](\A w \in Workers :
            Interrupted(w) =>
                /\ pc[w] \in {"release", "finish"}
                /\ (pc[w] = "finish" => loc[w].releases = 1))
    /\ [][\A w \in Workers :
            (Interrupted(w) /\ pc[w] = "finish" /\ pc'[w] # "finish") =>
                /\ pc'[w] = "idle"
                /\ future'[job[w].id] = "finished"
                /\ Get(active_counts', job[w].user)
                     = Get(active_counts, job[w].user) - 1]_vars

\* worker w has admitted its job and has not yet finished it: the job
\* passed the gate (lines 65-71) and the worker has not reached line 80
Admitted(w) == pc[w] = "admitted" \/ Executing(w) \/ pc[w] = "finish"

\* C25: with a ceiling configured, active_count(u) is at every instant
\* the number of u's jobs that a worker has admitted and not yet finished:
\* never negative, back at its previous value when the job has returned or
\* raised, and 0 whenever no job of u is admitted.
C25_CountMatchesAdmitted ==
    \A u \in Users :
        /\ active_count(u) >= 0
        /\ active_count(u)
             = Cardinality({w \in Workers : Admitted(w) /\ job[w].user = u})

\* the ceilings that are None, 0 or negative
GateOffArgs == {c \in CeilingArgs : c = NoneCeiling \/ c <= 0}

\* C26: when max_active_per_user is None, 0 or negative the gate is
\* disabled: no worker ever waits at the gate, the jobs of one submitter
\* that execute at the same time are limited only by the number of workers,
\* and active_count(u) is 0 for every u even while u's jobs are executing.
C26_GateDisabled ==
    ceiling_arg \in GateOffArgs =>
        /\ \A w \in Workers : pc[w] \notin {"gate", "gate_wait"}
        /\ \A u \in Users :
              /\ active_count(u) = 0
              /\ Cardinality({w \in Workers : Executing(w) /\ job[w].user = u})
                   <= max_workers
        /\ active_counts = EmptyDict

\* with a negative ceiling every worker executes a job of the same submitter
\* and a further job of that submitter waits in the queue
C26_Witness ==
    /\ ceiling_arg = -1
    /\ \E u \in Users :
         /\ \A w \in Workers : Executing(w) /\ job[w].user = u
         /\ active_count(u) = 0
         /\ queue # <<>>
         /\ Head(queue).user = u

\* C27: in every reachable state a URL is a key of ActiveDownloads._active
\* if and only if exactly one job holds it, its stored count is exactly 1,
\* and the dict is empty whenever no download job is between try_acquire
\* and release.
C27_KeysAreHeldUrls ==
    /\ \A k \in DOMAIN active :
         /\ k \in Urls
         /\ active[k] = 1
         /\ Cardinality({w \in Workers : Holds(w, k)}) = 1
    /\ \A k \in Urls :
         (\E w \in Workers : Holds(w, k)) => k \in DOMAIN active
    /\ (\A w \in Workers, k \in Urls : ~Holds(w, k)) => active = EmptyDict

\* one job has released its URL and its key is gone, the other job still
\* holds its own URL with count 1
C27_Witness ==
    /\ DOMAIN active = {"b"}
    /\ active["b"] = 1
    /\ \E w1 \in Workers, w2 \in Workers :
         /\ job[w1].kind = "download" /\ job[w1].url = "a"
         /\ loc[w1].acquired /\ loc[w1].releases = 1 /\ pc[w1] = "finish"
         /\ Holds(w2, "b") /\ pc[w2] = "fetching"

\* C28: when the delivery of a cached file_id fails, the download job does
\* not end: it goes on to the direct-link stage and from there to
\* downloader.download, for the same URL and still holding it.
C28_CacheFailureFallsThrough ==
    /\ [][\A w \in Workers :
            (pc[w] = "probe" /\ pc'[w] # "probe" /\ loc'[w].hit = "exc") =>
                /\ pc'[w] = "direct"
                /\ loc'[w].result = "none"
                /\ job'[w] = job[w]
                /\ Holds(w, job[w].url)'
                /\ active' = active]_vars
    /\ [](\A w \in Workers :
            (job[w].kind = "download" /\ loc[w].hit = "exc") =>
                /\ (pc[w] \in {"direct", "fallback", "fetching"} =>
                       /\ loc[w].result = "none"
                       /\ Holds(w, job[w].url)
                       /\ Get(active, job[w].url) = 1)
                /\ (loc[w].fetched => loc[w].resolved))

\* the cached file_id could not be sent, the direct-link stage found no
\* link, and the job is inside downloader.download with the URL held
C28_Witness ==
    \E w \in Workers :
        /\ job[w].kind = "download"
        /\ loc[w].hit = "exc"
        /\ loc[w].delivered = "none"
        /\ loc[w].resolved
        /\ pc[w] = "fetching"
        /\ Holds(w, job[w].url)

\* the entries a request may be served from, in the order of preference:
\* <<reencoded, audio_only>>
ProbeOrder(audio_only, device) ==
    IF audio_only THEN << <<FALSE, TRUE>> >>
    ELSE IF device # DEVICE_ANDROID THEN << <<TRUE, FALSE>>, <<FALSE, FALSE>> >>
    ELSE << <<FALSE, FALSE>>, <<TRUE, FALSE>> >>

\* the handle of the entry (reencoded, audio_only) = e of the probed request,
\* "None" when the cache has no such row
ProbedEntry(e) ==
    LET rows == {r \in file_cache :
                    /\ r.url = probe.url
                    /\ r.format_id = NormFormat(probe.format_id)
                    /\ r.reencoded = Flag(e[1])
                    /\ r.audio_only = Flag(e[2])}
    IN IF rows = {} THEN "None" ELSE (CHOOSE r \in rows : TRUE).telegram_file_id

\* what C29 says of the latest probe and the cache it read
ProbePolicy ==
    probe.called =>
        LET order == ProbeOrder(probe.audio_only, probe.device)
            n == Len(probe.lookups)
        IN /\ n >= 1 /\ n <= Len(order)
           /\ \A i \in 1..n : probe.lookups[i] = order[i]
           /\ \A i \in 1..n : probe.lookups[i][2] = probe.audio_only
           /\ \A i \in 1..(n - 1) : ProbedEntry(order[i]) = "None"
           /\ probe.cached_file_id = ProbedEntry(order[n])
           /\ (probe.cached_file_id = "None" =>
                  /\ n = Len(order)
                  /\ \A i \in 1..Len(order) : ProbedEntry(order[i]) = "None")
           /\ (probe.cached_file_id # "None" =>
                  \E r \in file_cache :
                      /\ r.telegram_file_id = probe.cached_file_id
                      /\ r.url = probe.url
                      /\ r.audio_only = Flag(probe.audio_only))

\* C29: the cache probe of a download job looks up, for a video request,
\* first the entry whose re-encoded flag matches the device (re-encoded
\* unless the device is Android), then the entry with the opposite flag, and
\* declares a miss only if both are absent; an audio-only request looks up
\* only the audio-only entry; a video request is never served an audio-only
\* entry, nor an audio request a video entry.
C29_ProbePolicy == [][probe' # probe => ProbePolicy']_vars

\* an Android video request is served the re-encoded entry after the plain
\* one was looked up and found absent, while an audio-only entry of the same
\* URL is in the cache
C29_Witness ==
    /\ probe.called
    /\ probe.device = DEVICE_ANDROID
    /\ ~probe.audio_only
    /\ probe.lookups = << <<FALSE, FALSE>>, <<TRUE, FALSE>> >>
    /\ probe.cached_file_id = "fidB"
    /\ \E r \in file_cache :
         r.url = probe.url /\ r.audio_only = 1 /\ r.telegram_file_id = "fidA"

\* ------------------------------------------------ split_video driver
\* one call of downloader.split_video(file_path, split_target_size) on a
\* file of any size, with any ffprobe answer and any ffmpeg products
SplitVideoCall ==
    /\ \E file_size \in SplitFileSizes \cup {40, split_target_size}, duration \in Durations,
          produced \in [1..MaxParts -> {0} \cup PartSizes] :
         /\ Ceil(file_size, split_target_size) <= MaxParts
         /\ SumTo(produced, MaxParts) <= file_size
         /\ cut' = [called |-> TRUE, file_size |-> file_size,
                    duration |-> duration, produced |-> produced,
                    result |-> split_video(file_size, split_target_size,
                                           duration, produced)]
    /\ UNCHANGED <<managerVars, shutdown_requested, active, file_cache, split_pending,
                   reencode_meta, workerVars, cacheDriverVars, retry, reg,
                   ceiling_arg, probe, decide>>

SpecCut == Init /\ [][SplitVideoCall]_vars

\* ------------------------------------------- split decisions (download.py)
\* a callback answered: which handler, for which token, "ok" or "stale",
\* and what submit_user did
Answered(handler, token, answer, submit) ==
    Append(decide.log, [handler |-> handler, token |-> token, answer |-> answer,
                        submit |-> submit])

\* the file an oversized download left for the token is still on disk
FileExists(token) == \A r \in decide.removed : r.token # token

\* handle_split_yes (lines 1107-1198), any token, any state of the queue
handle_split_yes(token) ==
    /\ Len(decide.log) < MaxCallbacks
    /\ submit_calls < MaxSubmits
    /\ IF PendingOf(token) = {}
       THEN /\ decide' = [decide EXCEPT !.log = Answered("yes", token, "stale", "none")]
            /\ UNCHANGED <<managerVars, split_pending>>
       ELSE /\ \E pending \in PendingOf(token) : Approve(pending)
            /\ decide' = [decide EXCEPT !.log = Answered("yes", token, "ok", last_submit')]
    /\ UNCHANGED <<shutdown_requested, active, file_cache, reencode_meta,
                   workerVars, cacheDriverVars, retry, reg, ceiling_arg, probe, cut>>

\* handle_split_no (lines 1203-1222): pop the token, then os.remove(file_path)
handle_split_no(token) ==
    /\ Len(decide.log) < MaxCallbacks
    /\ IF PendingOf(token) = {}
       THEN /\ decide' = [decide EXCEPT !.log = Answered("no", token, "stale", "none")]
            /\ UNCHANGED split_pending
       ELSE /\ split_pending' = PopPending(token)
            /\ decide' = [log |-> Answered("no", token, "ok", "none"),
                          removed |-> IF FileExists(token)
                                      THEN decide.removed \cup
                                           {[token |-> token, by |-> "abandon"]}
                                      ELSE decide.removed]
    /\ UNCHANGED <<managerVars, shutdown_requested, active, file_cache, reencode_meta,
                   workerVars, cacheDriverVars, retry, reg, ceiling_arg, probe, cut>>

\* DataCleanupMonitor._cleanup_data_dir (cleanup.py 32-51) on the file of
\* one token: the file is older than CLEANUP_MAX_AGE_SECONDS and is removed;
\* nothing else is touched
cleanup_data_dir(token) ==
    /\ FileExists(token)
    /\ decide' = [decide EXCEPT !.removed = @ \cup {[token |-> token, by |-> "cleanup"]}]
    /\ UNCHANGED <<managerVars, shutdown_requested, active, file_cache, split_pending,
                   reencode_meta, workerVars, cacheDriverVars, retry, reg,
                   ceiling_arg, probe, cut>>

\* the handlers of the split question with other requests arriving; the
\* workers are held by jobs that do not end here
NextDecide ==
    \/ \E token \in Tokens : handle_split_yes(token)
    \/ \E token \in Tokens : handle_split_no(token)
    \/ \E token \in Tokens : cleanup_data_dir(token)
    \/ Submit

SpecDecide == InitSplit /\ [][NextDecide]_vars

\* C30: every file a split job hands to _send_media has a size within
\* max_file_size, whatever split_video did: also when ffprobe fails, when
\* the duration is not positive and when no part is produced.
C30_PartsWithinLimit ==
    \A w \in Workers :
        job[w].kind = "split" =>
            \A k \in 1..Len(loc[w].parts) :
                loc[w].parts[k].size <= max_file_size

\* C31: split_video on a file larger than the target size runs ffmpeg for
\* exactly ceil(S / M) segments of equal duration, one after the other from
\* 0, and returns at most that many parts in increasing segment order (120
\* and 45 give 3); on a file within the target size it returns the unsplit
\* file alone.
C31_EqualSegments ==
    cut.called =>
        LET S == cut.file_size
            M == split_target_size
            r == cut.result
            n == Len(r.cuts)
        IN IF S <= M
           THEN r.cuts = <<>> /\ r.parts = <<[segment |-> 0, size |-> S]>>
           ELSE /\ n * M >= S /\ (n - 1) * M < S
                /\ (S = 120 /\ M = 45 => n = 3)
                /\ \A i \in 1..n :
                     /\ r.cuts[i].t = r.cuts[1].t
                     /\ r.cuts[i].den = r.cuts[1].den
                     /\ r.cuts[i].start = (i - 1) * r.cuts[1].t
                /\ Len(r.parts) <= n
                /\ \A k \in 1..Len(r.parts) : r.parts[k].segment \in 0..n
                /\ \A k \in 1..(Len(r.parts) - 1) :
                     r.parts[k].segment < r.parts[k + 1].segment

\* C32: for each split token at most one decision takes effect: once the
\* split-approval or the abandon handler has consumed the token, every later
\* split or abandon callback for it is answered as stale and neither
\* submits a split job nor deletes anything.
C32_OneDecision ==
    [][\A e \in [handler : {"yes", "no"}, token : Tokens,
                 answer : {"ok", "stale"}, submit : {"none", "accepted", "full"}] :
          (/\ decide'.log = Append(decide.log, e)
           /\ \E i \in 1..Len(decide.log) :
                 decide.log[i].token = e.token /\ decide.log[i].answer = "ok")
          => /\ e.answer = "stale"
             /\ UNCHANGED <<managerVars, split_pending>>
             /\ decide'.removed = decide.removed]_vars

C32_Witness ==
    \E i \in 1..Len(decide.log), j \in 1..Len(decide.log) :
        /\ i < j
        /\ decide.log[i].token = decide.log[j].token
        /\ decide.log[i].handler = "yes" /\ decide.log[i].answer = "ok"
        /\ decide.log[j].handler = "no" /\ decide.log[j].answer = "stale"

C34_SweptIsStale ==
    [][\A token \in Tokens :
          (/\ [token |-> token, by |-> "cleanup"] \in decide.removed
           /\ Len(decide'.log) = Len(decide.log) + 1
           /\ decide'.log[Len(decide'.log)].token = token
           /\ decide'.log[Len(decide'.log)].handler = "yes")
          => /\ decide'.log[Len(decide'.log)].answer = "stale"
             /\ queue' = queue]_vars

\* the fetch of the download job of worker w ended by TimeoutError
TimedOut(w) == job[w].kind = "download" /\ loc[w].reason = "timeout"

C36_FifoDequeue ==
    /\ [](\A k \in 1..Len(queue), l \in 1..Len(queue) :
            k < l => queue[k].id < queue[l].id)
    /\ [][\A w \in Workers :
            (pc[w] = "idle" /\ pc'[w] \in {"gate", "admitted"})
            => /\ InQueue(job'[w].id)
               /\ \A k \in 1..Len(queue') : job'[w].id < queue'[k].id]_vars

\* a job accepted later is executing while an earlier one, taken from the
\* queue before it, still waits at the gate of its submitter
C36_Witness ==
    \E wa \in Workers, wb \in Workers :
        /\ pc[wa] = "gate_wait" /\ pc[wb] = "executing"
        /\ job[wa].id < job[wb].id

\* C37: every accepted job is in the queue or with one worker, never both
\* and never with two; its future only moves from pending to running to
\* finished, so its function starts at most once; and when the function has
\* ended and the worker has left the job, the future has its result or
\* exception.
C37_JobLifecycle ==
    /\ [](\A i \in JobIds :
            Cardinality({w \in Workers : job[w].id = i})
              + Cardinality({k \in 1..Len(queue) : queue[k].id = i}) <= 1)
    /\ [](\A w \in Workers :
            (job[w] # NoJob /\ ~Admitted(w) /\ pc[w] \notin {"gate", "gate_wait"})
            => future[job[w].id] = "finished")
    /\ [][\A i \in JobIds :
            future'[i] # future[i]
            => <<future[i], future'[i]>> \in {<<"absent", "pending">>,
                                              <<"pending", "running">>,
                                              <<"running", "finished">>}]_vars

\* C38: a split approval that is rejected because the queue is full has no
\* side effect: the pending entry of its token is still there afterwards.
C38_FullKeepsToken ==
    [][(/\ Len(decide'.log) = Len(decide.log) + 1
        /\ decide'.log[Len(decide'.log)].handler = "yes"
        /\ decide'.log[Len(decide'.log)].submit = "full")
       => /\ split_pending' = split_pending
          /\ queue' = queue]_vars

====
